---- MODULE Spec2Model ----
(***************************************************************************)
(* Telegram <-> WhatsApp bridge (index.js): configuration parsing, the     *)
(* WhatsApp -> Telegram command handler and the Telegram -> WhatsApp       *)
(* forwarding handler, as a state machine.                                 *)
(*                                                                         *)
(* A JavaScript string is a sequence of one-character strings.  A handler  *)
(* runs without interruption between two awaits; every action below is one *)
(* such run.  A rejected promise carries an Error object.                  *)
(***************************************************************************)
EXTENDS Integers, Sequences, FiniteSets, TLC

\* ------------------------------------------------------------------------
\* Bounds of the exploration
\* ------------------------------------------------------------------------
\* Longest friend list (after parsing) that is explored.
MaxFriends == 3
\* Telegram events whose handler may be suspended at the same time.
MaxTgInFlight == 2
\* Runs of the SIGINT handler.
MaxSigints == 2
\* message_create events the metadata inspector receives in one run.
MaxInspections == 2
\* Handler invocations of both directions together that may be suspended at
\* the same time when messages overlap.
MaxInFlight == 2

\* ------------------------------------------------------------------------
\* JavaScript string operations
\* ------------------------------------------------------------------------
\* White space as String.prototype.trim understands it.
WhiteSpace == {" ", "\t", "\n"}

Digits == {"0", "1", "2", "3", "4", "5", "6", "7", "8", "9"}

LowerChar(c) ==
  CASE c = "A" -> "a" [] c = "B" -> "b" [] c = "G" -> "g" [] c = "H" -> "h"
    [] c = "I" -> "i" [] c = "J" -> "j" [] c = "L" -> "l" [] c = "M" -> "m"
    [] c = "N" -> "n" [] c = "O" -> "o" [] c = "R" -> "r" [] c = "T" -> "t"
    [] c = "Y" -> "y" [] OTHER -> c

toLowerCase(s) == [i \in 1..Len(s) |-> LowerChar(s[i])]

startsWith(s, p) == Len(s) >= Len(p) /\ SubSeq(s, 1, Len(p)) = p

\* s.substring(from): from is a 0-based index.
substringFrom(s, from) == SubSeq(s, from + 1, Len(s))

\* s.substring(from, to): 0-based, to excluded.
substring(s, from, to) == SubSeq(s, from + 1, to)

RECURSIVE trimStart(_)
trimStart(s) ==
  IF s # <<>> /\ Head(s) \in WhiteSpace THEN trimStart(Tail(s)) ELSE s

RECURSIVE trimEnd(_)
trimEnd(s) ==
  IF s # <<>> /\ s[Len(s)] \in WhiteSpace
  THEN trimEnd(SubSeq(s, 1, Len(s) - 1)) ELSE s

trim(s) == trimEnd(trimStart(s))

\* s.indexOf(c) for a one-character c: 0-based, -1 when absent.
indexOf(s, c) ==
  IF \E i \in 1..Len(s) : s[i] = c
  THEN (CHOOSE i \in 1..Len(s) : s[i] = c /\ \A j \in 1..(i - 1) : s[j] # c) - 1
  ELSE -1

includes(s, c) == \E i \in 1..Len(s) : s[i] = c

\* s.split(c) for a one-character separator c.
RECURSIVE split(_, _)
split(s, c) ==
  LET k == indexOf(s, c)
  IN IF k < 0 THEN <<s>>
     ELSE <<substring(s, 0, k)>> \o split(substringFrom(s, k + 1), c)

\* Index (1-based) of the first occurrence of pat in s, 0 when absent.
firstMatch(s, pat) ==
  LET hits == {i \in 1..(Len(s) - Len(pat) + 1) : SubSeq(s, i, i + Len(pat) - 1) = pat}
  IN IF hits = {} THEN 0 ELSE CHOOSE i \in hits : \A j \in hits : i <= j

\* s.replace(pat, ''): the first occurrence of the string pat is removed.
replaceFirst(s, pat) ==
  LET k == firstMatch(s, pat)
  IN IF k = 0 THEN s
     ELSE SubSeq(s, 1, k - 1) \o SubSeq(s, k + Len(pat), Len(s))

\* /^\d+$/.test(s)
isDigits(s) == s # <<>> /\ \A i \in 1..Len(s) : s[i] \in Digits

DigitValue(c) ==
  CASE c = "0" -> 0 [] c = "1" -> 1 [] c = "2" -> 2 [] c = "3" -> 3 [] c = "4" -> 4
    [] c = "5" -> 5 [] c = "6" -> 6 [] c = "7" -> 7 [] c = "8" -> 8 [] OTHER -> 9

\* BigInt(s) for a string of decimal digits.
RECURSIVE BigInt(_)
BigInt(s) ==
  IF s = <<>> THEN 0
  ELSE 10 * BigInt(SubSeq(s, 1, Len(s) - 1)) + DigitValue(s[Len(s)])

DigitChar(d) ==
  CASE d = 0 -> "0" [] d = 1 -> "1" [] d = 2 -> "2" [] d = 3 -> "3" [] d = 4 -> "4"
    [] d = 5 -> "5" [] d = 6 -> "6" [] d = 7 -> "7" [] d = 8 -> "8" [] OTHER -> "9"

\* n.toString() for a non-negative integer: canonical decimal digits.
RECURSIVE toString(_)
toString(n) ==
  IF n < 10 THEN <<DigitChar(n)>> ELSE toString(n \div 10) \o <<DigitChar(n % 10)>>

\* ------------------------------------------------------------------------
\* Environment (.env) and configuration parsing
\* ------------------------------------------------------------------------
\* An environment variable: unset, or set to a string.
Unset == [def |-> FALSE, s |-> <<>>]
Str(s) == [def |-> TRUE, s |-> s]

\* JavaScript truthiness of an environment value: set and not empty.
Truthy(v) == v.def /\ v.s # <<>>

\* a || b on environment values.
OrElse(a, b) == IF Truthy(a) THEN a ELSE b

DefaultPrefix == <<"t", "g", ":">>
PlaceholderId == <<"0", "0", "0", "0", "0", "0", "0", "0", "0">>
PlaceholderNumber == <<"3", "4", "0", "0", "0", "0", "0", "0", "0", "0", "0">>

\* parseInt(v): the leading decimal digits of the string; NaN is written -1.
RECURSIVE leadingDigits(_)
leadingDigits(s) ==
  IF s # <<>> /\ Head(s) \in Digits THEN <<Head(s)>> \o leadingDigits(Tail(s)) ELSE <<>>

parseInt(v) ==
  LET d == leadingDigits(trimStart(v.s))
  IN IF ~v.def \/ d = <<>> THEN -1 ELSE BigInt(d)

friendIdsString(e) == OrElse(e.FRIEND_TELEGRAM_IDS, e.FRIEND_TELEGRAM_ID)

RECURSIVE mapTrim(_)
mapTrim(xs) == IF xs = <<>> THEN <<>> ELSE <<trim(Head(xs))>> \o mapTrim(Tail(xs))

RECURSIVE filterIds(_)
filterIds(xs) ==
  IF xs = <<>> THEN <<>>
  ELSE IF Head(xs) # <<>> /\ Head(xs) # PlaceholderId
       THEN <<Head(xs)>> \o filterIds(Tail(xs))
       ELSE filterIds(Tail(xs))

\* The entries of the friend list that reach the checking map callback.
idEntries(e) == filterIds(mapTrim(split(friendIdsString(e).s, ",")))

\* The first entry the map callback exits on: 0 when every entry is numeric.
firstBadId(xs) ==
  LET bad == {i \in 1..Len(xs) : includes(xs[i], ":") \/ ~isDigits(xs[i])}
  IN IF bad = {} THEN 0 ELSE CHOOSE i \in bad : \A j \in bad : i <= j

RECURSIVE mapBigInt(_)
mapBigInt(xs) == IF xs = <<>> THEN <<>> ELSE <<BigInt(Head(xs))>> \o mapBigInt(Tail(xs))

\* const [tag, id] = pair.split(':').map(s => s.trim()); a missing part is
\* undefined, written as the empty string (both are falsy in `tag && id`).
pairOf(p) ==
  LET parts == mapTrim(split(p, ":"))
  IN [tag |-> parts[1], id |-> IF Len(parts) >= 2 THEN parts[2] ELSE <<>>]

\* The pairs of FRIEND_TAGS that pass `if (tag && id)`.
RECURSIVE tagPairs(_)
tagPairs(ps) ==
  IF ps = <<>> THEN <<>>
  ELSE LET pr == pairOf(Head(ps))
       IN IF pr.tag # <<>> /\ pr.id # <<>>
          THEN <<pr>> \o tagPairs(Tail(ps)) ELSE tagPairs(Tail(ps))

friendTags(e) == OrElse(e.FRIEND_TAGS, Str(<<>>)).s

acceptedPairs(e) ==
  IF friendTags(e) = <<>> THEN <<>> ELSE tagPairs(split(friendTags(e), ","))

\* obj[key] = value
Put(m, key, value) ==
  [k \in DOMAIN m \cup {key} |-> IF k = key THEN value ELSE m[k]]

\* FRIEND_TAG_MAP[tag.toLowerCase()] = bigIntId, pair after pair.
RECURSIVE buildTagMap(_, _)
buildTagMap(m, prs) ==
  IF prs = <<>> THEN m
  ELSE buildTagMap(Put(m, toLowerCase(Head(prs).tag), BigInt(Head(prs).id)), Tail(prs))

\* FRIEND_ID_TO_TAG[bigIntId.toString()] = tag, pair after pair.
RECURSIVE buildIdToTag(_, _)
buildIdToTag(m, prs) ==
  IF prs = <<>> THEN m
  ELSE buildIdToTag(Put(m, toString(BigInt(Head(prs).id)), Head(prs).tag), Tail(prs))

EmptyObject == [k \in {} |-> 0]

\* Module start-up up to "Configuration valid!": the outcome is "ok", an
\* exit with code 1 after an error message, or an uncaught exception.
Stopped(how, why) ==
  [outcome |-> how, message |-> why, ids |-> <<>>,
   tagMap |-> EmptyObject, idToTag |-> EmptyObject]

loadConfiguration(e) ==
  IF ~friendIdsString(e).def
  THEN Stopped("crash", "TypeError: cannot read properties of undefined (reading 'split')")
  ELSE LET xs == idEntries(e)
           b == firstBadId(xs)
           prs == acceptedPairs(e)
       IN IF b # 0 /\ includes(xs[b], ":")
          THEN Stopped("exit", "Invalid format in FRIEND_TELEGRAM_IDS")
          ELSE IF b # 0
          THEN Stopped("exit", "Invalid ID in FRIEND_TELEGRAM_IDS")
          ELSE IF \E i \in 1..Len(prs) : ~isDigits(prs[i].id)
          THEN Stopped("crash", "SyntaxError: cannot convert to a BigInt")
          ELSE IF parseInt(e.TELEGRAM_API_ID) <= 0
          THEN Stopped("exit", "TELEGRAM_API_ID is missing or invalid")
          ELSE IF ~Truthy(e.TELEGRAM_API_HASH)
          THEN Stopped("exit", "TELEGRAM_API_HASH is missing")
          ELSE IF ~Truthy(e.TELEGRAM_PHONE)
          THEN Stopped("exit", "TELEGRAM_PHONE is missing")
          ELSE IF ~e.sessionFile
          THEN Stopped("exit", "Telegram session file not found")
          ELSE IF Len(xs) = 0
          THEN Stopped("exit", "No valid friend Telegram IDs found")
          ELSE IF ~Truthy(e.YOUR_WHATSAPP_NUMBER)
                  \/ e.YOUR_WHATSAPP_NUMBER.s = PlaceholderNumber
          THEN Stopped("exit", "YOUR_WHATSAPP_NUMBER is missing or invalid")
          ELSE [outcome |-> "ok", message |-> "Configuration valid!",
                ids |-> mapBigInt(xs),
                tagMap |-> buildTagMap(EmptyObject, prs),
                idToTag |-> buildIdToTag(EmptyObject, prs)]

\* ------------------------------------------------------------------------
\* The .env files explored
\* ------------------------------------------------------------------------
OwnerNumber == <<"3", "4">>

EnvBase ==
  [FRIEND_TELEGRAM_IDS |-> Str(<<"1", ",", "2", ",", "3">>),
   FRIEND_TELEGRAM_ID |-> Unset,
   FRIEND_TAGS |-> Str(<<"j", "o", "h", "n", ":", "1", ",", "M", "a", "r", "y", ":", "2">>),
   YOUR_WHATSAPP_NUMBER |-> Str(OwnerNumber),
   MESSAGE_PREFIX |-> Unset,
   TELEGRAM_API_ID |-> Str(<<"7">>),
   TELEGRAM_API_HASH |-> Str(<<"h">>),
   TELEGRAM_PHONE |-> Str(<<"+", "3", "4">>),
   sessionFile |-> TRUE]

\* The same identifier twice in the list, one of them with blanks around it.
EnvDuplicate ==
  [EnvBase EXCEPT !.FRIEND_TELEGRAM_IDS = Str(<<"1", ",", " ", "1", " ", ",", "2">>),
                  !.FRIEND_TAGS = Str(<<"j", "o", "h", "n", ":", "1">>)]

\* The singular variable name, no tags, an upper-case prefix.
EnvSingular ==
  [EnvBase EXCEPT !.FRIEND_TELEGRAM_IDS = Unset,
                  !.FRIEND_TELEGRAM_ID = Str(<<"2">>),
                  !.FRIEND_TAGS = Unset,
                  !.MESSAGE_PREFIX = Str(<<"T", "G", ":">>)]

\* A tag whose identifier is not in the friend list; a placeholder entry.
EnvTagOutside ==
  [EnvBase EXCEPT !.FRIEND_TELEGRAM_IDS =
                    Str(<<"2", ",", "0", "0", "0", "0", "0", "0", "0", "0", "0", ",", "1">>),
                  !.FRIEND_TAGS = Str(<<"j", "o", "h", "n", ":", "3">>)]

\* Four friends.
EnvFour ==
  [EnvBase EXCEPT !.FRIEND_TELEGRAM_IDS = Str(<<"1", ",", "2", ",", "3", ",", "4">>),
                  !.FRIEND_TAGS = Str(<<"j", "o", "h", "n", ":", "4">>)]

\* A FRIEND_TAGS entry without ':' beside a well-formed one; one friend.
EnvTagNoColon ==
  [EnvBase EXCEPT !.FRIEND_TELEGRAM_IDS = Str(<<"1">>),
                  !.FRIEND_TAGS = Str(<<"j", "o", "h", "n", ",", "a", "l", ":", "1">>)]

\* A FRIEND_TAGS entry with two ':'; one friend.
EnvTagTwoColons ==
  [EnvBase EXCEPT !.FRIEND_TELEGRAM_IDS = Str(<<"1">>),
                  !.FRIEND_TAGS = Str(<<"j", "o", "h", "n", ":", "1", ":", "2">>)]

\* The same tag for two friends.
EnvRepeatedTag ==
  [EnvBase EXCEPT !.FRIEND_TELEGRAM_IDS = Str(<<"1", ",", "2">>),
                  !.FRIEND_TAGS = Str(<<"j", "o", "h", "n", ":", "1", ",", "J", "o", "h", "n", ":", "2">>)]

\* Two tags for the same friend.
EnvRepeatedId ==
  [EnvBase EXCEPT !.FRIEND_TELEGRAM_IDS = Str(<<"1", ",", "2">>),
                  !.FRIEND_TAGS = Str(<<"j", "o", "h", "n", ":", "1", ",", "j", "o", ":", "1">>)]

EnvNoIds == [EnvBase EXCEPT !.FRIEND_TELEGRAM_IDS = Unset]
EnvBadId == [EnvBase EXCEPT !.FRIEND_TELEGRAM_IDS = Str(<<"1", ",", "x">>)]
EnvTagInIds == [EnvBase EXCEPT !.FRIEND_TELEGRAM_IDS = Str(<<"j", ":", "1">>)]
EnvOnlyPlaceholder == [EnvBase EXCEPT !.FRIEND_TELEGRAM_IDS = Str(PlaceholderId)]
EnvBadTagId == [EnvBase EXCEPT !.FRIEND_TAGS = Str(<<"j", "o", "h", "n", ":", "x">>)]
EnvNoApiId == [EnvBase EXCEPT !.TELEGRAM_API_ID = Unset]
EnvNoHash == [EnvBase EXCEPT !.TELEGRAM_API_HASH = Unset]
EnvNoPhone == [EnvBase EXCEPT !.TELEGRAM_PHONE = Unset]
EnvNoSession == [EnvBase EXCEPT !.sessionFile = FALSE]
EnvNoNumber == [EnvBase EXCEPT !.YOUR_WHATSAPP_NUMBER = Unset]
EnvPlaceholderNumber == [EnvBase EXCEPT !.YOUR_WHATSAPP_NUMBER = Str(PlaceholderNumber)]

Envs ==
  {EnvBase, EnvDuplicate, EnvSingular, EnvTagOutside, EnvFour,
   EnvTagNoColon, EnvTagTwoColons, EnvRepeatedTag, EnvRepeatedId, EnvNoIds, EnvBadId, EnvTagInIds, EnvOnlyPlaceholder, EnvBadTagId,
   EnvNoApiId, EnvNoHash, EnvNoPhone, EnvNoSession, EnvNoNumber,
   EnvPlaceholderNumber}

\* ------------------------------------------------------------------------
\* State
\* ------------------------------------------------------------------------
VARIABLES
  env,                  \* process.env, fixed when the process starts
  phase,                \* how far the process has come
  exitCode,             \* -1 while the process runs, else process.exit's code
  startupMessage,       \* the last message of the start-up
  FRIEND_TELEGRAM_IDS,  \* array of BigInt
  FRIEND_TAG_MAP,       \* object: lower-case tag -> BigInt
  FRIEND_ID_TO_TAG,     \* object: decimal identifier -> tag as written
  YOUR_WHATSAPP_NUMBER,
  MESSAGE_PREFIX,
  waMsg,                \* the WhatsApp message being handled (at most one)
  waTasks,              \* the invocations of handleWhatsAppMessage for it
  tgTasks,              \* the invocations of the Telegram event handler
  clients,              \* what has been done with the two clients
  shutdown,             \* the runs of the SIGINT handler
  logBuffer,            \* metadata inspector: the module-level log buffer
  inspections,          \* metadata inspector: the message_create handler runs
  terminalFiles         \* metadata inspector: the terminal log files written

registry == <<FRIEND_TELEGRAM_IDS, FRIEND_TAG_MAP, FRIEND_ID_TO_TAG,
              YOUR_WHATSAPP_NUMBER, MESSAGE_PREFIX>>

\* The state of the metadata inspector (test-whatsapp-metadata.js), a program
\* of its own.
inspector == <<logBuffer, inspections, terminalFiles>>

lifecycle == <<clients, shutdown>>

vars == <<env, phase, exitCode, startupMessage, FRIEND_TELEGRAM_IDS, FRIEND_TAG_MAP,
          FRIEND_ID_TO_TAG, YOUR_WHATSAPP_NUMBER, MESSAGE_PREFIX, waMsg, waTasks,
          tgTasks, clients, shutdown, logBuffer, inspections, terminalFiles>>

\* ------------------------------------------------------------------------
\* JavaScript values that a property lookup on FRIEND_TAG_MAP can yield
\* ------------------------------------------------------------------------
JsBigInt(n) == [k |-> "bigint", v |-> n]
JsUndefined == [k |-> "undefined", v |-> 0]
JsObject == [k |-> "object", v |-> 0]

\* The lower-case property names every object inherits from Object.prototype.
ObjectPrototypeKeys ==
  {<<"c", "o", "n", "s", "t", "r", "u", "c", "t", "o", "r">>,
   <<"_", "_", "p", "r", "o", "t", "o", "_", "_">>}

\* FRIEND_TAG_MAP[key]
tagLookup(key) ==
  IF key \in DOMAIN FRIEND_TAG_MAP THEN JsBigInt(FRIEND_TAG_MAP[key])
  ELSE IF key \in ObjectPrototypeKeys THEN JsObject
  ELSE JsUndefined

\* The truthiness of such a value: 0n and undefined are falsy.
truthy(x) == x.k = "object" \/ (x.k = "bigint" /\ x.v # 0)

RECURSIVE asJsValues(_)
asJsValues(ids) ==
  IF ids = <<>> THEN <<>> ELSE <<JsBigInt(Head(ids))>> \o asJsValues(Tail(ids))

\* ------------------------------------------------------------------------
\* WhatsApp -> Telegram: handleWhatsAppMessage
\* ------------------------------------------------------------------------
All == <<"a", "l", "l">>
CUs == <<"@", "c", ".", "u", "s">>

\* The texts handed to msg.reply.  An emoji is written as one token; the
\* list of the configured tags that ends the usage help is left out.
UsageReply ==
  <<"WARN ", "Message is empty.", "\n\nUsage:\n   ">> \o MESSAGE_PREFIX
    \o <<" Your message\n   ">> \o MESSAGE_PREFIX \o <<"all Your message\n   ">>
    \o MESSAGE_PREFIX \o <<"john Your message">>
NoMessageReply == <<"WARN ", "No message provided after tag.">>
EmptyReply == <<"WARN ", "Message is empty.">>
UnknownTagReply(tag) == <<"WARN ", "Unknown tag: ">> \o tag
SentReply(recipients) == <<"OK ", "Sent to ">> \o recipients \o <<" on Telegram">>
FailedReply(n) == <<"WARN ", "Failed to send to ">> \o toString(n) \o <<" friend(s)">>
ErrorReply == <<"ERR ", "Error sending message to Telegram">>

\* An invocation that has not done anything yet.
NewInvocation(ev) ==
  [pc |-> "done", event |-> ev, gate |-> FALSE, command |-> FALSE,
   afterPrefix |-> <<>>, targetTag |-> <<>>, messageToSend |-> <<>>,
   targetFriendIds |-> <<>>, next |-> 0, successCount |-> 0, errorCount |-> 0,
   awaiting |-> "none", sent |-> <<>>, resolved |-> 0, rejected |-> 0,
   replies |-> <<>>, replyRejected |-> 0, logged |-> 0]

\* await msg.reply(text): the call is made, the invocation waits for it.
reply(t, kind, text) ==
  [t EXCEPT !.pc = "awaitReply", !.awaiting = kind, !.replies = Append(@, text)]

\* Mutant of sendToFriend: the array is walked from its end.
sendToFriendReversed(t, i) ==
  [t EXCEPT !.pc = "awaitSend", !.next = i,
            !.sent = Append(@, [to |-> t.targetFriendIds[Len(t.targetFriendIds) - i + 1],
                                message |-> t.messageToSend])]

\* await telegramClient.sendMessage(friendId, {message: messageToSend}) for the
\* i-th element of targetFriendIds.
sendToFriend(t, i) ==
  [t EXCEPT !.pc = "awaitSend", !.next = i,
            !.sent = Append(@, [to |-> t.targetFriendIds[i], message |-> t.messageToSend])]

\* The confirmation after the loop.
recipientsOf(t) ==
  IF t.targetTag = All THEN toString(t.successCount) \o <<" friend(s)">> ELSE t.targetTag

replyFailedIfAny(t) ==
  IF t.errorCount > 0 THEN reply(t, "failed", FailedReply(t.errorCount))
  ELSE [t EXCEPT !.pc = "done"]

confirm(t) ==
  IF t.successCount > 0 THEN reply(t, "sent", SentReply(recipientsOf(t)))
  ELSE replyFailedIfAny(t)

\* One turn of `for (const friendId of targetFriendIds)`: the next send, or
\* the confirmation when the array is exhausted.
forNext(t, i) ==
  IF i <= Len(t.targetFriendIds) THEN sendToFriend(t, i) ELSE confirm(t)

\* The target selection and the start of the loop.
dispatch(t) ==
  IF t.targetTag = All
  THEN forNext([t EXCEPT !.targetFriendIds = asJsValues(FRIEND_TELEGRAM_IDS)], 1)
  ELSE IF truthy(tagLookup(t.targetTag))
  THEN forNext([t EXCEPT !.targetFriendIds = <<tagLookup(t.targetTag)>>], 1)
  ELSE reply(t, "unknownTag", UnknownTagReply(t.targetTag))

\* The tag and the message of a non-empty afterPrefix.
parseTag(t) ==
  LET afterPrefix == t.afterPrefix
      firstSpace == indexOf(afterPrefix, " ")
      potentialTag == toLowerCase(substring(afterPrefix, 0, firstSpace))
  IN IF firstSpace > 0
     THEN IF potentialTag = All \/ truthy(tagLookup(potentialTag))
          THEN [t EXCEPT !.targetTag = potentialTag,
                         !.messageToSend = trim(substringFrom(afterPrefix, firstSpace + 1))]
          ELSE [t EXCEPT !.targetTag = All, !.messageToSend = afterPrefix]
     ELSE [t EXCEPT !.targetTag = All, !.messageToSend = afterPrefix]

\* Mutant of tagWithoutMessage: only `all` is recognised as a lone selector.
tagWithoutMessageAllOnly(afterPrefix) ==
  /\ indexOf(afterPrefix, " ") <= 0
  /\ toLowerCase(afterPrefix) = All

\* The tag alone, with no space in afterPrefix.
tagWithoutMessage(afterPrefix) ==
  /\ indexOf(afterPrefix, " ") <= 0
  /\ \/ toLowerCase(afterPrefix) = All
     \/ truthy(tagLookup(toLowerCase(afterPrefix)))

\* The owner gate.
fromNumber(msg) == replaceFirst(msg.from, CUs)

\* Mutant of passesGate: the origin is compared by prefix.
passesGatePrefix(msg) ==
  msg.fromMe \/ startsWith(fromNumber(msg), YOUR_WHATSAPP_NUMBER)

passesGate(msg) == msg.fromMe \/ fromNumber(msg) = YOUR_WHATSAPP_NUMBER

\* Mutant of isCommand: the comparison with the prefix is case-sensitive.
isCommandCaseSensitive(msg) == startsWith(msg.body, MESSAGE_PREFIX)

\* Mutant of isCommand: white space before the prefix is skipped.
isCommandTrimmed(msg) ==
  startsWith(toLowerCase(trimStart(msg.body)), toLowerCase(MESSAGE_PREFIX))

\* The prefix check.
isCommand(msg) == startsWith(toLowerCase(msg.body), toLowerCase(MESSAGE_PREFIX))

\* Mutant of handleWhatsAppMessage: the check for an empty afterPrefix is
\* missing.
handleWhatsAppMessageNoUsage(msg, ev) ==
  LET t0 == NewInvocation(ev)
      afterPrefix == trim(substringFrom(msg.body, Len(MESSAGE_PREFIX)))
      t1 == [t0 EXCEPT !.gate = TRUE, !.command = TRUE, !.afterPrefix = afterPrefix]
      t2 == parseTag(t1)
  IN IF ~passesGate(msg) THEN t0
     ELSE IF ~isCommand(msg) THEN [t0 EXCEPT !.gate = TRUE]
     ELSE IF tagWithoutMessage(afterPrefix) THEN reply(t1, "noMessage", NoMessageReply)
     ELSE IF t2.messageToSend = <<>> THEN reply(t2, "empty", EmptyReply)
     ELSE dispatch(t2)

\* Mutant of handleWhatsAppMessage: what follows the prefix is not trimmed.
handleWhatsAppMessageUntrimmed(msg, ev) ==
  LET t0 == NewInvocation(ev)
      afterPrefix == substringFrom(msg.body, Len(MESSAGE_PREFIX))
      t1 == [t0 EXCEPT !.gate = TRUE, !.command = TRUE, !.afterPrefix = afterPrefix]
      t2 == parseTag(t1)
  IN IF ~passesGate(msg) THEN t0
     ELSE IF ~isCommand(msg) THEN [t0 EXCEPT !.gate = TRUE]
     ELSE IF afterPrefix = <<>> THEN reply(t1, "usage", UsageReply)
     ELSE IF tagWithoutMessage(afterPrefix) THEN reply(t1, "noMessage", NoMessageReply)
     ELSE IF t2.messageToSend = <<>> THEN reply(t2, "empty", EmptyReply)
     ELSE dispatch(t2)

\* The handler from its call to its first await (or its return).
handleWhatsAppMessage(msg, ev) ==
  LET t0 == NewInvocation(ev)
      afterPrefix == trim(substringFrom(msg.body, Len(MESSAGE_PREFIX)))
      t1 == [t0 EXCEPT !.gate = TRUE, !.command = TRUE, !.afterPrefix = afterPrefix]
      t2 == parseTag(t1)
  IN IF ~passesGate(msg) THEN t0
     ELSE IF ~isCommand(msg) THEN [t0 EXCEPT !.gate = TRUE]
     ELSE IF afterPrefix = <<>> THEN reply(t1, "usage", UsageReply)
     ELSE IF tagWithoutMessage(afterPrefix) THEN reply(t1, "noMessage", NoMessageReply)
     ELSE IF t2.messageToSend = <<>> THEN reply(t2, "empty", EmptyReply)
     ELSE dispatch(t2)

\* The outer catch: the error is logged and one error reply is attempted.
outerCatch(t) ==
  reply([t EXCEPT !.logged = @ + 1], "error", ErrorReply)

\* Mutant of afterSend: the first rejected send ends the loop (fail-fast).
afterSendFailFast(t, ok) ==
  IF ok
  THEN forNext([t EXCEPT !.successCount = @ + 1, !.resolved = @ + 1], t.next + 1)
  ELSE confirm([t EXCEPT !.errorCount = @ + 1, !.rejected = @ + 1])

\* Mutant of afterSend: a rejected send is counted as a success.
afterSendMiscount(t, ok) ==
  IF ok
  THEN forNext([t EXCEPT !.successCount = @ + 1, !.resolved = @ + 1], t.next + 1)
  ELSE forNext([t EXCEPT !.successCount = @ + 1, !.rejected = @ + 1], t.next + 1)

\* The handler resumes after the awaited sendMessage settled.
afterSend(t, ok) ==
  IF ok
  THEN forNext([t EXCEPT !.successCount = @ + 1, !.resolved = @ + 1], t.next + 1)
  ELSE forNext([t EXCEPT !.errorCount = @ + 1, !.rejected = @ + 1], t.next + 1)

\* Mutant of afterReply: the failure summary is an `else` of the success
\* summary and is skipped after it.
afterReplySuccessOnly(t, ok) ==
  IF t.awaiting = "error"
  THEN [t EXCEPT !.pc = "done", !.logged = IF ok THEN @ ELSE @ + 1,
                 !.replyRejected = IF ok THEN @ ELSE @ + 1]
  ELSE IF ~ok THEN outerCatch([t EXCEPT !.replyRejected = @ + 1])
  ELSE [t EXCEPT !.pc = "done"]

\* Mutant of afterReply: there is no outer catch, a rejected reply ends the
\* invocation with a rejected promise.
afterReplyUncaught(t, ok) ==
  IF ~ok THEN [t EXCEPT !.pc = "escaped", !.replyRejected = @ + 1]
  ELSE IF t.awaiting = "sent" THEN replyFailedIfAny(t)
  ELSE [t EXCEPT !.pc = "done"]

\* The handler resumes after the awaited msg.reply settled.
afterReply(t, ok) ==
  IF t.awaiting = "error"
  THEN [t EXCEPT !.pc = "done", !.logged = IF ok THEN @ ELSE @ + 1,
                 !.replyRejected = IF ok THEN @ ELSE @ + 1]
  ELSE IF ~ok THEN outerCatch([t EXCEPT !.replyRejected = @ + 1])
  ELSE IF t.awaiting = "sent" THEN replyFailedIfAny(t)
  ELSE [t EXCEPT !.pc = "done"]

\* ------------------------------------------------------------------------
\* The WhatsApp events explored
\* ------------------------------------------------------------------------
\* no prefix
BodyPlain == <<"h", "e", "l", "l", "o">>
\* a space before the prefix
BodyLeadingSpace == <<" ", "t", "g", ":", " ", "H", "i">>
\* shorter than the prefix
BodyShort == <<"t", "g">>
\* the prefix alone
BodyPrefixOnly == <<"t", "g", ":">>
\* the prefix and white space
BodyPrefixBlank == <<"T", "G", ":", " ", "\t">>
\* the selector all alone
BodyAll == <<"t", "g", ":", "a", "l", "l">>
\* all and a message
BodyAllHi == <<"t", "g", ":", "A", "L", "L", " ", "H", "i">>
\* all, two spaces, a message
BodyAllGap == <<"t", "g", ":", "a", "l", "l", " ", " ", "h", "i">>
\* a tag alone
BodyJohn == <<"t", "g", ":", "j", "o", "h", "n">>
\* a tag and trailing white space
BodyJohnBlank == <<"t", "g", ":", "J", "O", "H", "N", " ", " ">>
\* a tag and a message, mixed case
BodyJohnHi == <<"T", "G", ":", "J", "o", "h", "n", " ", "H", "i">>
\* a space before the tag
BodySpaceJohnHi == <<"t", "g", ":", " ", "j", "o", "h", "n", " ", "h", "i">>
\* another tag and a message
BodyMaryYo == <<"T", "g", ":", "m", "a", "r", "y", " ", "y", "o">>
\* a message to all friends
BodyHi == <<"t", "g", ":", " ", "H", "i">>
\* an unknown first word
BodyBobHi == <<"t", "g", ":", "B", "o", "b", " ", "h", "i">>
\* a tag, a newline, a message
BodyJohnNewlineHi == <<"t", "g", ":", "j", "o", "h", "n", "\n", "H", "i">>
\* a tag, a tab, a message
BodyJohnTabHi == <<"t", "g", ":", "j", "o", "h", "n", "\t", "h", "i">>
\* a property name of Object.prototype alone
BodyConstructor == <<"t", "g", ":", "c", "o", "n", "s", "t", "r", "u", "c", "t", "o", "r">>
\* a property name of Object.prototype and a message
BodyConstructorHi == <<"t", "g", ":", "c", "o", "n", "s", "t", "r", "u", "c", "t", "o", "r", " ", "h", "i">>

Bodies ==
  {BodyPlain, BodyLeadingSpace, BodyShort, BodyPrefixOnly, BodyPrefixBlank, BodyAll,
   BodyAllHi, BodyAllGap, BodyJohn, BodyJohnBlank,
   BodyJohnHi, BodySpaceJohnHi, BodyMaryYo, BodyHi,
   BodyBobHi, BodyJohnNewlineHi, BodyJohnTabHi, BodyConstructor,
   BodyConstructorHi}

\* msg.from: the owner's chat, a number that starts with the owner's, and a
\* group whose identifier is the owner's number.
FromOwner == <<"3", "4", "@", "c", ".", "u", "s">>
FromOther == <<"3", "4", "5", "@", "c", ".", "u", "s">>
FromGroup == <<"3", "4", "@", "g", ".", "u", "s">>

Froms == {FromOwner, FromOther, FromGroup}

WhatsAppMessages == [fromMe : BOOLEAN, from : Froms, body : Bodies]

\* ------------------------------------------------------------------------
\* Start-up
\* ------------------------------------------------------------------------
\* Neither client has been started; the forwarding handler is not installed.
NoClients == [telegram |-> "idle", forwarding |-> FALSE, whatsapp |-> "idle"]

Init ==
  /\ env \in Envs
  /\ phase = "loading"
  /\ exitCode = -1
  /\ startupMessage = ""
  /\ FRIEND_TELEGRAM_IDS = <<>>
  /\ FRIEND_TAG_MAP = EmptyObject
  /\ FRIEND_ID_TO_TAG = EmptyObject
  /\ YOUR_WHATSAPP_NUMBER = <<>>
  /\ MESSAGE_PREFIX = <<>>
  /\ waMsg = <<>>
  /\ waTasks = <<>>
  /\ tgTasks = <<>>
  /\ clients = NoClients
  /\ shutdown = <<>>
  /\ logBuffer = <<>>
  /\ inspections = <<>>
  /\ terminalFiles = <<>>

\* process.exit(code), or the death of the process by an uncaught exception
\* (which Node reports with exit code 1).
exit(code, why) ==
  /\ phase' = "exited"
  /\ exitCode' = code
  /\ startupMessage' = why

\* The module body down to the start of the async main function, which runs
\* to its first await: telegramClient.connect().
LoadConfiguration ==
  /\ phase = "loading"
  /\ LET c == loadConfiguration(env)
     IN /\ c.outcome = "ok" => Len(c.ids) <= MaxFriends
        /\ IF c.outcome = "ok"
           THEN /\ phase' = "connecting"
                /\ startupMessage' = c.message
                /\ clients' = [clients EXCEPT !.telegram = "connecting"]
                /\ UNCHANGED exitCode
           ELSE exit(1, c.message) /\ UNCHANGED clients
        /\ FRIEND_TELEGRAM_IDS' = c.ids
        /\ FRIEND_TAG_MAP' = c.tagMap
        /\ FRIEND_ID_TO_TAG' = c.idToTag
        /\ YOUR_WHATSAPP_NUMBER' = env.YOUR_WHATSAPP_NUMBER.s
        /\ MESSAGE_PREFIX' = OrElse(env.MESSAGE_PREFIX, Str(DefaultPrefix)).s
  /\ UNCHANGED <<inspector, shutdown, env, waMsg, waTasks, tgTasks>>

\* Mutant of TelegramConnect: a rejected connect() is swallowed and the
\* start-up goes on.
TelegramConnectSwallowed(ok) ==
  /\ phase = "connecting"
  /\ phase' = "settingUp"
  /\ clients' = [clients EXCEPT !.telegram = IF ok THEN "connected" ELSE "failed"]
  /\ UNCHANGED <<exitCode, startupMessage>>
  /\ UNCHANGED <<inspector, shutdown, env, registry, waMsg, waTasks, tgTasks>>

\* telegramClient.connect() settles; on success setupTelegramForwarding runs
\* to its await of telegramClient.getMe().
TelegramConnect(ok) ==
  /\ phase = "connecting"
  /\ IF ok
     THEN /\ phase' = "settingUp"
          /\ clients' = [clients EXCEPT !.telegram = "connected"]
          /\ UNCHANGED <<exitCode, startupMessage>>
     ELSE /\ exit(1, "Failed to start bridge")
          /\ clients' = [clients EXCEPT !.telegram = "failed"]
  /\ UNCHANGED <<inspector, shutdown, env, registry, waMsg, waTasks, tgTasks>>

\* getMe() settles; on success the Telegram event handler is added, "BRIDGE IS
\* ACTIVE!" is printed and whatsappClient.initialize() is called.
SetupTelegramForwarding(ok) ==
  /\ phase = "settingUp"
  /\ IF ok
     THEN /\ phase' = "initializing"
          /\ startupMessage' = "BRIDGE IS ACTIVE!"
          /\ clients' = [clients EXCEPT !.forwarding = TRUE, !.whatsapp = "initializing"]
          /\ UNCHANGED exitCode
     ELSE exit(1, "Failed to start bridge") /\ UNCHANGED clients
  /\ UNCHANGED <<inspector, shutdown, env, registry, waMsg, waTasks, tgTasks>>

\* whatsappClient.initialize() settles.
WhatsAppInitialize(ok) ==
  /\ phase = "initializing"
  /\ IF ok
     THEN /\ phase' = "running"
          /\ clients' = [clients EXCEPT !.whatsapp = "ready"]
          /\ UNCHANGED <<exitCode, startupMessage>>
     ELSE /\ exit(1, "Failed to start bridge")
          /\ clients' = [clients EXCEPT !.whatsapp = "failed"]
  /\ UNCHANGED <<inspector, shutdown, env, registry, waMsg, waTasks, tgTasks>>

\* The WhatsApp client emits events once initialize() has been called.
whatsAppListening == phase \in {"initializing", "running"}

\* The Telegram client calls the event handler once it has been added.
telegramListening == phase \in {"initializing", "running"}

\* ------------------------------------------------------------------------
\* WhatsApp events
\* ------------------------------------------------------------------------
\* The events whatsapp-web.js emits for one message: 'message_create' for
\* every message, then 'message' for a message that the account did not send.
eventsFor(msg) ==
  IF msg.fromMe THEN <<"message_create">> ELSE <<"message_create", "message">>

\* The listeners: handleWhatsAppMessage on both events.
emit(msg) ==
  LET evs == eventsFor(msg)
  IN [i \in 1..Len(evs) |-> handleWhatsAppMessage(msg, evs[i])]

allDone(tasks) == \A i \in 1..Len(tasks) : tasks[i].pc = "done"

\* A message arrives; every listener runs to its first await.  The message
\* handled before, whose invocations have all returned, is forgotten.
WhatsAppMessage(msg) ==
  /\ whatsAppListening
  /\ allDone(waTasks)
  /\ waMsg' = <<msg>>
  /\ waTasks' = emit(msg)
  /\ UNCHANGED <<inspector, lifecycle, env, phase, exitCode, startupMessage, registry, tgTasks>>

\* Mutant of TelegramSendSettles: successCount and errorCount are shared by
\* all invocations instead of being local to each.
TelegramSendSettlesShared(i, ok) ==
  /\ phase # "exited"
  /\ i \in 1..Len(waTasks)
  /\ waTasks[i].pc = "awaitSend"
  /\ waTasks' = [j \in 1..Len(waTasks) |->
                   IF j = i THEN afterSend(waTasks[j], ok)
                   ELSE [waTasks[j] EXCEPT !.successCount = IF ok THEN @ + 1 ELSE @,
                                           !.errorCount = IF ok THEN @ ELSE @ + 1]]
  /\ UNCHANGED <<inspector, lifecycle, env, phase, exitCode, startupMessage, registry, waMsg, tgTasks>>

\* An awaited telegramClient.sendMessage resolves (ok) or rejects.
TelegramSendSettles(i, ok) ==
  /\ phase # "exited"
  /\ i \in 1..Len(waTasks)
  /\ waTasks[i].pc = "awaitSend"
  /\ waTasks' = [waTasks EXCEPT ![i] = afterSend(@, ok)]
  /\ UNCHANGED <<inspector, lifecycle, env, phase, exitCode, startupMessage, registry, waMsg, tgTasks>>

\* Mutant of ReplySettles: when a reply settles, every invocation that still
\* awaits a send gives up waiting and goes on to its confirmation (a timeout).
ReplySettlesTimesOut(i, ok) ==
  /\ phase # "exited"
  /\ i \in 1..Len(waTasks)
  /\ waTasks[i].pc = "awaitReply"
  /\ waTasks' = [j \in 1..Len(waTasks) |->
                   IF j = i THEN afterReply(waTasks[j], ok)
                   ELSE IF waTasks[j].pc = "awaitSend"
                        THEN reply(waTasks[j], "failed", FailedReply(1))
                        ELSE waTasks[j]]
  /\ UNCHANGED <<inspector, lifecycle, env, phase, exitCode, startupMessage, registry, waMsg, tgTasks>>

\* An awaited msg.reply resolves (ok) or rejects.
ReplySettles(i, ok) ==
  /\ phase # "exited"
  /\ i \in 1..Len(waTasks)
  /\ waTasks[i].pc = "awaitReply"
  /\ waTasks' = [waTasks EXCEPT ![i] = afterReply(@, ok)]
  /\ UNCHANGED <<inspector, lifecycle, env, phase, exitCode, startupMessage, registry, waMsg, tgTasks>>

\* ------------------------------------------------------------------------
\* Telegram -> WhatsApp: the handler added by setupTelegramForwarding
\* ------------------------------------------------------------------------
\* message.senderId: a native bigint, a big-integer object (whose toString
\* gives its decimal digits), or undefined.
SenderBigInt(n) == [kind |-> "bigint", v |-> n]
SenderObject(n) == [kind |-> "object", v |-> n]
SenderUndefined == [kind |-> "undefined", v |-> 0]

\* typeof senderId === 'bigint' ? senderId : BigInt(senderId.toString())
senderIdBigInt(senderId) ==
  IF senderId.kind = "bigint" THEN senderId.v ELSE BigInt(toString(senderId.v))

\* Mutant of isFriend: the identifiers are compared after a conversion that
\* keeps only their low digit (a comparison that loses precision).
isFriendTruncated(id) ==
  \E i \in 1..Len(FRIEND_TELEGRAM_IDS) : FRIEND_TELEGRAM_IDS[i] % 10 = id % 10

\* FRIEND_TELEGRAM_IDS.some(id => id === senderIdBigInt)
isFriend(id) == \E i \in 1..Len(FRIEND_TELEGRAM_IDS) : FRIEND_TELEGRAM_IDS[i] = id

NewForwarding(ev) ==
  [pc |-> "done", event |-> ev, senderId |-> 0, accepted |-> FALSE,
   forwarded |-> <<>>, rejected |-> 0, logged |-> 0]

\* Mutant of telegramHandler: the sender is looked at before the text.
telegramHandlerSenderFirst(ev) ==
  LET t == NewForwarding(ev)
  IN IF ~ev.hasMessage THEN t
     ELSE IF ev.senderId.kind = "undefined" THEN [t EXCEPT !.logged = @ + 1]
     ELSE IF ~isFriend(senderIdBigInt(ev.senderId))
     THEN [t EXCEPT !.senderId = senderIdBigInt(ev.senderId)]
     ELSE IF ev.text = <<>> THEN [t EXCEPT !.senderId = senderIdBigInt(ev.senderId)]
     ELSE [t EXCEPT !.senderId = senderIdBigInt(ev.senderId),
                    !.accepted = TRUE, !.pc = "awaitSender"]

\* The handler from its call to its first await, message.getSender(), or to
\* its return.  A senderId of undefined makes senderId.toString() throw; the
\* catch logs the error.
telegramHandler(ev) ==
  LET t == NewForwarding(ev)
  IN IF ~ev.hasMessage THEN t
     ELSE IF ev.text = <<>> THEN t
     ELSE IF ev.senderId.kind = "undefined" THEN [t EXCEPT !.logged = @ + 1]
     ELSE IF ~isFriend(senderIdBigInt(ev.senderId))
     THEN [t EXCEPT !.senderId = senderIdBigInt(ev.senderId)]
     ELSE [t EXCEPT !.senderId = senderIdBigInt(ev.senderId),
                    !.accepted = TRUE, !.pc = "awaitSender"]

senderName(sender) ==
  sender.firstName \o (IF sender.lastName # <<>> THEN <<" ">> \o sender.lastName ELSE <<>>)

\* FRIEND_ID_TO_TAG[senderIdBigInt.toString()]; undefined is the empty string
\* (both are falsy).
senderTag(id) ==
  IF toString(id) \in DOMAIN FRIEND_ID_TO_TAG THEN FRIEND_ID_TO_TAG[toString(id)] ELSE <<>>

BridgeMarker == "MAIL TG | "

messageHeader(name, tag) ==
  IF tag # <<>>
  THEN <<BridgeMarker>> \o name \o <<" ", "(">> \o tag \o <<")", ":">>
  ELSE <<BridgeMarker>> \o name \o <<":">>

\* Mutant of forwardedMessage: the shortened preview of the text, as in the
\* log line, is forwarded.
forwardedMessagePreview(t, sender) ==
  messageHeader(senderName(sender), senderTag(t.senderId)) \o <<"\n">>
    \o substring(t.event.text, 0, 1)

\* Mutant of forwardedMessage: the text is forwarded without the header.
forwardedMessageBare(t, sender) == t.event.text

forwardedMessage(t, sender) ==
  messageHeader(senderName(sender), senderTag(t.senderId)) \o <<"\n">> \o t.event.text

whatsappNumber == YOUR_WHATSAPP_NUMBER \o CUs

\* getSender() resolved with the sender: the message is formatted and
\* whatsappClient.sendMessage is called and awaited.
afterGetSender(t, sender) ==
  [t EXCEPT !.pc = "awaitSend",
            !.forwarded = Append(@, [to |-> whatsappNumber,
                                     text |-> forwardedMessage(t, sender)])]

\* Mutant of afterWhatsAppSend: a rejected send is made again.
afterWhatsAppSendRetries(t, ok) ==
  IF ok THEN [t EXCEPT !.pc = "done"]
  ELSE [t EXCEPT !.pc = "awaitSend", !.rejected = @ + 1, !.logged = @ + 1,
                 !.forwarded = Append(@, @[Len(@)])]

\* whatsappClient.sendMessage settled: a rejection is caught and logged.
afterWhatsAppSend(t, ok) ==
  [t EXCEPT !.pc = "done", !.rejected = IF ok THEN @ ELSE @ + 1,
            !.logged = IF ok THEN @ ELSE @ + 1]

\* The Telegram events explored.
Ann == [firstName |-> <<"A", "n", "n">>, lastName |-> <<>>]
BoLi == [firstName |-> <<"B", "o">>, lastName |-> <<"L", "i">>]

TextHi == <<"H", "i">>
TextCommand == <<"t", "g", ":", " ", "y", "o">>

SenderIds ==
  {SenderBigInt(1), SenderObject(1), SenderObject(2), SenderObject(3),
   SenderBigInt(11), SenderObject(11), SenderObject(5), SenderUndefined}

TelegramEvents ==
  [hasMessage : {TRUE}, text : {<<>>, TextHi}, senderId : SenderIds, sender : {Ann}]
  \cup [hasMessage : {TRUE}, text : {TextCommand},
        senderId : {SenderObject(1), SenderObject(3)}, sender : {BoLi}]
  \cup [hasMessage : {FALSE}, text : {<<>>}, senderId : {SenderUndefined}, sender : {Ann}]

inFlight(tasks) == Cardinality({i \in 1..Len(tasks) : tasks[i].pc # "done"})

notDone(t) == t.pc # "done"

\* gramjs calls the handler for a new-message event; the handler runs to its
\* first await.  Invocations that returned earlier are forgotten.
TelegramEvent(ev) ==
  /\ telegramListening
  /\ inFlight(tgTasks) < MaxTgInFlight
  /\ tgTasks' = Append(SelectSeq(tgTasks, notDone), telegramHandler(ev))
  /\ UNCHANGED <<inspector, lifecycle, env, phase, exitCode, startupMessage, registry, waMsg, waTasks>>

\* message.getSender() resolves with the sender the event carries (the event
\* exposes the sender's display name).
GetSenderResolves(i) ==
  /\ phase # "exited"
  /\ i \in 1..Len(tgTasks)
  /\ tgTasks[i].pc = "awaitSender"
  /\ tgTasks' = [tgTasks EXCEPT ![i] = afterGetSender(@, @.event.sender)]
  /\ UNCHANGED <<inspector, lifecycle, env, phase, exitCode, startupMessage, registry, waMsg, waTasks>>

\* An awaited whatsappClient.sendMessage resolves (ok) or rejects.
WhatsAppSendSettles(i, ok) ==
  /\ phase # "exited"
  /\ i \in 1..Len(tgTasks)
  /\ tgTasks[i].pc = "awaitSend"
  /\ tgTasks' = [tgTasks EXCEPT ![i] = afterWhatsAppSend(@, ok)]
  /\ UNCHANGED <<inspector, lifecycle, env, phase, exitCode, startupMessage, registry, waMsg, waTasks>>

\* ------------------------------------------------------------------------
\* Specifications
\* ------------------------------------------------------------------------
\* The start-up and the WhatsApp -> Telegram direction, one message at a time
\* with all the invocations it triggers.
Next ==
  \/ LoadConfiguration
  \/ \E ok \in BOOLEAN : TelegramConnect(ok)
  \/ \E ok \in BOOLEAN : SetupTelegramForwarding(ok)
  \/ \E ok \in BOOLEAN : WhatsAppInitialize(ok)
  \/ \E msg \in WhatsAppMessages : WhatsAppMessage(msg)
  \/ \E i \in DOMAIN waTasks, ok \in BOOLEAN : TelegramSendSettles(i, ok)
  \/ \E i \in DOMAIN waTasks, ok \in BOOLEAN : ReplySettles(i, ok)

Spec == Init /\ [][Next]_vars

\* The start-up and the Telegram -> WhatsApp direction.
NextTelegram ==
  \/ LoadConfiguration
  \/ \E ok \in BOOLEAN : TelegramConnect(ok)
  \/ \E ok \in BOOLEAN : SetupTelegramForwarding(ok)
  \/ \E ok \in BOOLEAN : WhatsAppInitialize(ok)
  \/ \E ev \in TelegramEvents : TelegramEvent(ev)
  \/ \E i \in DOMAIN tgTasks : GetSenderResolves(i)
  \/ \E i \in DOMAIN tgTasks, ok \in BOOLEAN : WhatsAppSendSettles(i, ok)

SpecTelegram == Init /\ [][NextTelegram]_vars

\* ------------------------------------------------------------------------
\* Both directions at once, with overlapping WhatsApp messages
\* ------------------------------------------------------------------------
\* The configurations, messages and events of this specification.
EnvsOverlapping == {EnvTagOutside}

OverlappingMessages ==
  [fromMe : {TRUE}, from : {FromOwner}, body : {BodyHi, BodyJohnHi}]
  \cup [fromMe : {FALSE}, from : {FromOwner}, body : {BodyHi}]

OverlappingEvents ==
  [hasMessage : {TRUE}, text : {TextHi}, senderId : {SenderObject(1), SenderObject(5)},
   sender : {Ann}]

InitOverlapping == Init /\ env \in EnvsOverlapping

\* A message arrives while invocations for earlier messages are suspended at
\* an await; every listener runs to its first await.  Invocations of either
\* direction that have returned are forgotten.
WhatsAppMessageOverlapping(msg) ==
  /\ whatsAppListening
  /\ inFlight(waTasks) + inFlight(tgTasks) + Len(eventsFor(msg)) <= MaxInFlight
  /\ waMsg' = <<msg>>
  /\ waTasks' = SelectSeq(waTasks, notDone) \o emit(msg)
  /\ tgTasks' = SelectSeq(tgTasks, notDone)
  /\ UNCHANGED <<inspector, lifecycle, env, phase, exitCode, startupMessage, registry>>

\* A Telegram event arrives while other invocations are suspended.
TelegramEventOverlapping(ev) ==
  /\ telegramListening
  /\ inFlight(waTasks) + inFlight(tgTasks) < MaxInFlight
  /\ tgTasks' = Append(SelectSeq(tgTasks, notDone), telegramHandler(ev))
  /\ waTasks' = SelectSeq(waTasks, notDone)
  /\ UNCHANGED <<inspector, lifecycle, env, phase, exitCode, startupMessage, registry, waMsg>>

NextOverlapping ==
  \/ LoadConfiguration
  \/ \E ok \in BOOLEAN : TelegramConnect(ok)
  \/ \E ok \in BOOLEAN : SetupTelegramForwarding(ok)
  \/ \E ok \in BOOLEAN : WhatsAppInitialize(ok)
  \/ \E msg \in OverlappingMessages : WhatsAppMessageOverlapping(msg)
  \/ \E i \in DOMAIN waTasks, ok \in BOOLEAN : TelegramSendSettles(i, ok)
  \/ \E i \in DOMAIN waTasks, ok \in BOOLEAN : ReplySettles(i, ok)
  \/ \E ev \in OverlappingEvents : TelegramEventOverlapping(ev)
  \/ \E i \in DOMAIN tgTasks : GetSenderResolves(i)
  \/ \E i \in DOMAIN tgTasks, ok \in BOOLEAN : WhatsAppSendSettles(i, ok)

SpecOverlapping == InitOverlapping /\ [][NextOverlapping]_vars

\* ------------------------------------------------------------------------
\* Shutdown: process.on('SIGINT')
\* ------------------------------------------------------------------------
\* The handler from its call to its first await, telegramClient.disconnect().
sigintHandler == [pc |-> "awaitDisconnect", steps |-> <<"disconnect">>]

\* Mutant of afterDisconnect: a rejected disconnect() is not caught apart, the
\* destroy attempt is skipped.
afterDisconnectSkipsDestroy(h, ok) ==
  IF ok THEN [pc |-> "awaitDestroy", steps |-> h.steps \o <<"disconnected", "destroy">>]
  ELSE [pc |-> "awaitDestroy", steps |-> h.steps \o <<"disconnectError">>]

\* disconnect() settled (a rejection is caught and reported); the handler goes
\* on to await whatsappClient.destroy().
afterDisconnect(h, ok) ==
  [pc |-> "awaitDestroy",
   steps |-> h.steps \o <<IF ok THEN "disconnected" ELSE "disconnectError", "destroy">>]

\* destroy() settled (a rejection is caught and reported); process.exit(0).
afterDestroy(h, ok) ==
  [pc |-> "done",
   steps |-> h.steps \o <<IF ok THEN "destroyed" ELSE "destroyError", "exit">>]

\* Ctrl+C.  The listener is registered in the tick in which the start-up calls
\* telegramClient.connect(); before that a SIGINT ends the process at once.
Sigint ==
  /\ phase \notin {"loading", "exited"}
  /\ Len(shutdown) < MaxSigints
  /\ shutdown' = Append(shutdown, sigintHandler)
  /\ UNCHANGED <<inspector, clients, env, phase, exitCode, startupMessage, registry,
                 waMsg, waTasks, tgTasks>>

DisconnectSettles(i, ok) ==
  /\ phase # "exited"
  /\ i \in 1..Len(shutdown)
  /\ shutdown[i].pc = "awaitDisconnect"
  /\ shutdown' = [shutdown EXCEPT ![i] = afterDisconnect(@, ok)]
  /\ clients' = IF ok THEN [clients EXCEPT !.telegram = "disconnected"] ELSE clients
  /\ UNCHANGED <<inspector, env, phase, exitCode, startupMessage, registry,
                 waMsg, waTasks, tgTasks>>

DestroySettles(i, ok) ==
  /\ phase # "exited"
  /\ i \in 1..Len(shutdown)
  /\ shutdown[i].pc = "awaitDestroy"
  /\ shutdown' = [shutdown EXCEPT ![i] = afterDestroy(@, ok)]
  /\ clients' = IF ok THEN [clients EXCEPT !.whatsapp = "destroyed"] ELSE clients
  /\ exit(0, "Bridge stopped. Goodbye!")
  /\ UNCHANGED <<inspector, env, registry, waMsg, waTasks, tgTasks>>

\* The start-up and the shutdown.
NextShutdown ==
  \/ LoadConfiguration
  \/ \E ok \in BOOLEAN : TelegramConnect(ok)
  \/ \E ok \in BOOLEAN : SetupTelegramForwarding(ok)
  \/ \E ok \in BOOLEAN : WhatsAppInitialize(ok)
  \/ Sigint
  \/ \E i \in DOMAIN shutdown, ok \in BOOLEAN : DisconnectSettles(i, ok)
  \/ \E i \in DOMAIN shutdown, ok \in BOOLEAN : DestroySettles(i, ok)

SpecShutdown == Init /\ [][NextShutdown]_vars

\* ------------------------------------------------------------------------
\* The bridge's own messages coming back as events
\* ------------------------------------------------------------------------
\* The account the Telegram client is logged in as (getMe): its display name,
\* and the identifiers it may have: one of the allow-list of EnvBase, one
\* outside of it.
me == [firstName |-> <<"M", "e">>, lastName |-> <<>>]
meIds == {SenderBigInt(1), SenderObject(5)}

\* The external messages and events of this specification.
EchoMessages ==
  [fromMe : {TRUE}, from : {FromOwner}, body : {BodyPlain, BodyPrefixOnly, BodyJohn, BodyHi, BodyBobHi}]

EchoEvents ==
  [hasMessage : {TRUE}, text : {TextCommand}, senderId : {SenderObject(2)}, sender : {BoLi}]

\* A message the account sent on WhatsApp comes back as a message_create
\* event with fromMe true.
ownWhatsAppMessage(body) == [fromMe |-> TRUE, from |-> FromOwner, body |-> body]

\* A reply of the bridge (msg.reply) comes back to handleWhatsAppMessage.
ReplyEcho ==
  \E i \in DOMAIN waTasks :
    \E k \in DOMAIN waTasks[i].replies :
      WhatsAppMessage(ownWhatsAppMessage(waTasks[i].replies[k]))

\* A Telegram message the bridge forwarded to WhatsApp
\* (whatsappClient.sendMessage) comes back to handleWhatsAppMessage.
ForwardEcho ==
  \E i \in DOMAIN tgTasks :
    \E k \in DOMAIN tgTasks[i].forwarded :
      WhatsAppMessage(ownWhatsAppMessage(tgTasks[i].forwarded[k].text))

\* A message the bridge sent on Telegram (telegramClient.sendMessage) comes
\* back to the handler added with `new NewMessage({})`, which takes outgoing
\* messages too; its sender is the account itself.
SendEcho ==
  \E i \in DOMAIN waTasks :
    \E k \in DOMAIN waTasks[i].sent :
      \E id \in meIds :
        TelegramEvent([hasMessage |-> TRUE, text |-> waTasks[i].sent[k].message,
                       senderId |-> id, sender |-> me])

InitEcho == Init /\ env = EnvBase

NextEcho ==
  \/ LoadConfiguration
  \/ \E ok \in BOOLEAN : TelegramConnect(ok)
  \/ \E ok \in BOOLEAN : SetupTelegramForwarding(ok)
  \/ \E ok \in BOOLEAN : WhatsAppInitialize(ok)
  \/ \E msg \in EchoMessages : WhatsAppMessage(msg)
  \/ \E i \in DOMAIN waTasks, ok \in BOOLEAN : TelegramSendSettles(i, ok)
  \/ \E i \in DOMAIN waTasks, ok \in BOOLEAN : ReplySettles(i, ok)
  \/ \E ev \in EchoEvents : TelegramEvent(ev)
  \/ \E i \in DOMAIN tgTasks : GetSenderResolves(i)
  \/ \E i \in DOMAIN tgTasks, ok \in BOOLEAN : WhatsAppSendSettles(i, ok)
  \/ ReplyEcho
  \/ ForwardEcho
  \/ SendEcho

SpecEcho == InitEcho /\ [][NextEcho]_vars

\* ------------------------------------------------------------------------
\* The metadata inspector (test-whatsapp-metadata.js)
\* ------------------------------------------------------------------------
\* A line that log() pushes for the analysis of message m; part names the
\* section of the handler that logs it.
logLine(m, part) == [of |-> m, part |-> part]

\* log(message): push to the one module-level logBuffer.
log(buffer, m, part) == Append(buffer, logLine(m, part))

\* The handler of message m up to its first await: logBuffer = [], the report
\* header, then `await msg.getChat()`.
newInspection(m) == [msg |-> m, pc |-> "awaitChat", terminalLog |-> <<>>]

\* A message_create event: the handler starts, whatever earlier handlers are
\* suspended at.
MessageCreate ==
  /\ Len(inspections) < MaxInspections
  /\ inspections' = Append(inspections, newInspection(Len(inspections) + 1))
  /\ logBuffer' = log(<<>>, Len(inspections) + 1, "header")
  /\ UNCHANGED <<terminalFiles, lifecycle, env, phase, exitCode, startupMessage, registry,
                 waMsg, waTasks, tgTasks>>

\* msg.getChat() settles.  Resolved: the analysis sections log their lines (the
\* awaits between them are taken as one step) and the handler awaits the
\* writes of the message, chat and raw files.  Rejected: nothing catches it,
\* the handler ends.
GetChatSettles(i, ok) ==
  /\ i \in DOMAIN inspections
  /\ inspections[i].pc = "awaitChat"
  /\ IF ok
     THEN /\ logBuffer' = log(logBuffer, inspections[i].msg, "analysis")
          /\ inspections' = [inspections EXCEPT ![i].pc = "awaitFiles"]
     ELSE /\ inspections' = [inspections EXCEPT ![i].pc = "rejected"]
          /\ UNCHANGED logBuffer
  /\ UNCHANGED <<terminalFiles, lifecycle, env, phase, exitCode, startupMessage, registry,
                 waMsg, waTasks, tgTasks>>

\* The writes of the message, chat and raw files settle.  Resolved: their
\* lines are logged, terminalLog = logBuffer.join('\n') is taken and its write
\* awaited.  Rejected: the catch logs the error and the handler returns.
FilesSettle(i, ok) ==
  /\ i \in DOMAIN inspections
  /\ inspections[i].pc = "awaitFiles"
  /\ IF ok
     THEN /\ logBuffer' = log(logBuffer, inspections[i].msg, "saved")
          /\ inspections' = [inspections EXCEPT ![i].pc = "awaitTerminal",
                                                ![i].terminalLog = logBuffer']
     ELSE /\ logBuffer' = log(logBuffer, inspections[i].msg, "error")
          /\ inspections' = [inspections EXCEPT ![i].pc = "done"]
  /\ UNCHANGED <<terminalFiles, lifecycle, env, phase, exitCode, startupMessage, registry,
                 waMsg, waTasks, tgTasks>>

\* The write of the terminal log settles: the file of the message exists with
\* the joined buffer as its content, or the catch logs the error.
TerminalLogSettles(i, ok) ==
  /\ i \in DOMAIN inspections
  /\ inspections[i].pc = "awaitTerminal"
  /\ inspections' = [inspections EXCEPT ![i].pc = "done"]
  /\ IF ok
     THEN /\ terminalFiles' = Append(terminalFiles, [of |-> inspections[i].msg,
                                                     lines |-> inspections[i].terminalLog])
          /\ logBuffer' = log(logBuffer, inspections[i].msg, "terminal")
     ELSE /\ logBuffer' = log(logBuffer, inspections[i].msg, "error")
          /\ UNCHANGED terminalFiles
  /\ UNCHANGED <<lifecycle, env, phase, exitCode, startupMessage, registry,
                 waMsg, waTasks, tgTasks>>

InitInspector == Init /\ env = EnvBase

NextInspector ==
  \/ MessageCreate
  \/ \E i \in DOMAIN inspections, ok \in BOOLEAN : GetChatSettles(i, ok)
  \/ \E i \in DOMAIN inspections, ok \in BOOLEAN : FilesSettle(i, ok)
  \/ \E i \in DOMAIN inspections, ok \in BOOLEAN : TerminalLogSettles(i, ok)

SpecInspector == InitInspector /\ [][NextInspector]_vars

\* ------------------------------------------------------------------------
\* Properties of the WhatsApp -> Telegram direction
\* ------------------------------------------------------------------------
Invocations == {waTasks[i] : i \in DOMAIN waTasks}

\* The message whose invocations waTasks holds.
theMessage == waMsg[1]

\* What follows the prefix in the body, trimmed.
remainder(msg) == trim(SubSeq(msg.body, Len(MESSAGE_PREFIX) + 1, Len(msg.body)))

\* The event passed the owner gate and its body starts with the prefix.
ownerCommand(msg) ==
  /\ msg.fromMe \/ msg.from = YOUR_WHATSAPP_NUMBER \o CUs
  /\ Len(msg.body) >= Len(MESSAGE_PREFIX)
  /\ \A k \in 1..Len(MESSAGE_PREFIX) :
       LowerChar(msg.body[k]) = LowerChar(MESSAGE_PREFIX[k])

\* The number of telegramClient.sendMessage calls of invocation t to d.
sendsTo(t, d) == Cardinality({k \in 1..Len(t.sent) : t.sent[k].to = d})

NoDuplicates(xs) == \A a, b \in 1..Len(xs) : xs[a] = xs[b] => a = b

\* The invocation has left the loop over targetFriendIds.
loopFinished(t) == t.targetFriendIds # <<>> /\ t.pc # "awaitSend"

\* C1 as claimed: an owner command's invocation makes exactly one msg.reply
\* call, whatever the outcomes of its sends (no reply rejecting).
C1_ExactlyOneReply ==
  \A t \in Invocations :
    (waMsg # <<>> /\ ownerCommand(theMessage) /\ t.pc = "done" /\ t.replyRejected = 0)
      => Len(t.replies) = 1

\* C1 as amended: a finished invocation for an owner command has made at
\* least one and at most three msg.reply calls; when no reply rejected it made
\* exactly one if all its sends resolved or all rejected (or none was made),
\* and exactly two, the success summary and then the failure summary, if some
\* resolved and some rejected; every rejected reply but the error reply itself
\* is followed by one error reply.
C1_RepliesPerInvocation ==
  \A t \in Invocations :
    (waMsg # <<>> /\ ownerCommand(theMessage) /\ t.pc = "done")
      => /\ Len(t.replies) \in 1..3
         /\ (t.replyRejected = 0 /\ ~(t.resolved > 0 /\ t.rejected > 0))
              => Len(t.replies) = 1
         /\ (t.replyRejected = 0 /\ t.resolved > 0 /\ t.rejected > 0)
              => t.replies = <<SentReply(recipientsOf(t)), FailedReply(t.rejected)>>
         /\ t.replyRejected > 0 => t.replies[Len(t.replies)] = ErrorReply

\* C1 witness: a finished invocation with one send resolved, one rejected and
\* no reply rejected.
C1_Witness ==
  \E t \in Invocations :
    /\ ownerCommand(theMessage) /\ t.pc = "done" /\ t.replyRejected = 0
    /\ t.resolved > 0 /\ t.rejected > 0 /\ Len(t.replies) = 2

\* C2 as claimed: once every invocation triggered by a valid command has
\* returned, each destination (of a list without duplicates) has received
\* exactly one telegramClient.sendMessage call, all invocations counted.
C2_OneSendPerDestinationPerMessage ==
  (waTasks # <<>> /\ allDone(waTasks))
    => \A t \in Invocations :
         NoDuplicates(t.targetFriendIds)
           => \A k \in 1..Len(t.targetFriendIds) :
                LET d == t.targetFriendIds[k]
                IN sendsTo(waTasks[1], d)
                     + (IF Len(waTasks) > 1 THEN sendsTo(waTasks[2], d) ELSE 0) = 1

\* C3 as claimed: a command to `all` sends to each distinct configured
\* identifier exactly once within one invocation, also when the list repeats
\* an identifier.
C3_AllSendsOncePerIdentifier ==
  \A t \in Invocations :
    (t.pc = "done" /\ t.targetTag = All /\ t.targetFriendIds # <<>>)
      => /\ NoDuplicates(t.targetFriendIds)
         /\ \A k \in 1..Len(FRIEND_TELEGRAM_IDS) :
              sendsTo(t, JsBigInt(FRIEND_TELEGRAM_IDS[k])) = 1

\* C2 witness: a message the account did not send, from the owner's number,
\* was handled by both listeners and both invocations returned after sending.
C2_Witness ==
  /\ Len(waTasks) = 2 /\ allDone(waTasks)
  /\ \A t \in Invocations : t.sent # <<>>

\* C3 witness: a finished dispatch to `all` under a friend list that repeats
\* an identifier.
C3_Witness ==
  \E t \in Invocations :
    /\ t.pc = "done" /\ t.targetTag = All /\ t.sent # <<>>
    /\ ~NoDuplicates(FRIEND_TELEGRAM_IDS)

\* C4: within one dispatch the sends are attempted in the order of the
\* destination list, one attempt for each position; while a send is awaited
\* all earlier positions have been attempted and have settled; once the loop
\* is left every position has been attempted exactly once, whatever number of
\* sends rejected.
C4_OneAttemptPerDestination ==
  \A t \in Invocations :
    /\ Len(t.sent) <= Len(t.targetFriendIds)
    /\ \A k \in 1..Len(t.sent) :
         t.sent[k] = [to |-> t.targetFriendIds[k], message |-> t.messageToSend]
    /\ t.pc = "awaitSend"
         => Len(t.sent) = t.resolved + t.rejected + 1
    /\ loopFinished(t)
         => /\ Len(t.sent) = Len(t.targetFriendIds)
            /\ t.resolved + t.rejected = Len(t.targetFriendIds)

\* C4 witness: a dispatch to three destinations has finished with exactly one
\* rejected send and all three destinations attempted.
C4_Witness ==
  \E t \in Invocations :
    /\ t.pc = "done" /\ Len(t.targetFriendIds) = 3
    /\ t.rejected = 1 /\ t.resolved = 2 /\ Len(t.sent) = 3

\* The summary replies among the msg.reply calls of an invocation.
isSentReply(r) == Len(r) >= 2 /\ r[2] = "Sent to "
isFailedReply(r) == Len(r) >= 2 /\ r[2] = "Failed to send to "

\* C5: successCount is the number of sends that resolved and errorCount the
\* number that rejected; once the loop is left they add up to the number of
\* destinations; a success summary reads "Sent to N friend(s)" with N the
\* number of resolved sends for `all` and "Sent to <tag>" for a tag, whose one
\* send resolved; a failure summary reads "Failed to send to M friend(s)" with
\* M the number of rejected sends.
C5_SummaryCounts ==
  \A t \in Invocations :
    /\ t.successCount = t.resolved
    /\ t.errorCount = t.rejected
    /\ loopFinished(t) => t.successCount + t.errorCount = Len(t.targetFriendIds)
    /\ \A k \in 1..Len(t.replies) :
         /\ isSentReply(t.replies[k])
              => /\ loopFinished(t) /\ t.resolved > 0
                 /\ t.replies[k] =
                      IF t.targetTag = All
                      THEN <<"OK ", "Sent to ">> \o toString(t.resolved)
                             \o <<" friend(s)", " on Telegram">>
                      ELSE <<"OK ", "Sent to ">> \o t.targetTag \o <<" on Telegram">>
                 /\ t.targetTag # All => t.resolved = 1 /\ t.rejected = 0
         /\ isFailedReply(t.replies[k])
              => /\ loopFinished(t) /\ t.rejected > 0
                 /\ t.replies[k] =
                      <<"WARN ", "Failed to send to ">> \o toString(t.rejected)
                        \o <<" friend(s)">>

\* C5 witness: two sends resolved, one rejected, both summaries sent.
C5_Witness ==
  \E t \in Invocations :
    /\ t.pc = "done" /\ t.resolved = 2 /\ t.rejected = 1
    /\ \E k \in 1..Len(t.replies) : isSentReply(t.replies[k])
    /\ \E k \in 1..Len(t.replies) : isFailedReply(t.replies[k])

\* msg.from without its '@c.us' suffix.
withoutSuffix(a) ==
  IF Len(a) >= Len(CUs) /\ SubSeq(a, Len(a) - Len(CUs) + 1, Len(a)) = CUs
  THEN SubSeq(a, 1, Len(a) - Len(CUs)) ELSE a

fromOwner(msg) == msg.fromMe \/ withoutSuffix(msg.from) = YOUR_WHATSAPP_NUMBER

\* C6: an event that the account did not send and whose origin, without its
\* '@c.us' suffix, is not exactly the owner's number causes no Telegram send
\* and no reply and does not reach the command parser, whatever its body; any
\* other event reaches the command parser.
C6_OwnerGate ==
  waMsg # <<>> =>
    \A t \in Invocations :
      /\ ~fromOwner(theMessage)
           => t.sent = <<>> /\ t.replies = <<>> /\ ~t.gate /\ t.pc = "done"
      /\ fromOwner(theMessage) => t.gate

\* C6 witness: a command from a number that only starts with the owner's
\* number has been handled by both listeners.
C6_Witness ==
  /\ waMsg # <<>> /\ Len(waTasks) = 2
  /\ theMessage.from = FromOther /\ theMessage.body = BodyHi

C10_EmptyRemainder ==
  waMsg # <<>> =>
    \A t \in Invocations :
      (ownerCommand(theMessage) /\ remainder(theMessage) = <<>>)
        => /\ t.sent = <<>>
           /\ t.replies # <<>>
           /\ t.replies[1] = UsageReply
           /\ t.replies[1] # NoMessageReply

\* C10 witness: the owner sent the prefix followed by white space only.
C10_Witness ==
  /\ waMsg # <<>> /\ waTasks # <<>>
  /\ ownerCommand(theMessage) /\ theMessage.body = BodyPrefixBlank

\* The selector token of a remainder: what precedes its first white-space
\* character, in lower case; the rest: what follows it, trimmed.
firstWhiteSpace(r) ==
  LET ws == {i \in 1..Len(r) : r[i] \in {" ", "\t", "\n"}}
  IN IF ws = {} THEN 0 ELSE CHOOSE i \in ws : \A j \in ws : i <= j

token(r) ==
  LET w == firstWhiteSpace(r)
      word == IF w = 0 THEN r ELSE SubSeq(r, 1, w - 1)
  IN [i \in 1..Len(word) |-> LowerChar(word[i])]

rest(r) ==
  LET w == firstWhiteSpace(r)
  IN IF w = 0 THEN <<>> ELSE trim(SubSeq(r, w + 1, Len(r)))

\* C11 as claimed: an owner command whose first token, in lower case, is a
\* configured tag and whose rest is not empty has the single destination the
\* tag maps to, and the rest as its payload in every send; with the token
\* `all` the destinations are the friend list and the payload is the rest.
C11_TagRouting ==
  waMsg # <<>> =>
    \A t \in Invocations :
      LET r == remainder(theMessage)
      IN (ownerCommand(theMessage) /\ rest(r) # <<>>)
           => /\ token(r) \in DOMAIN FRIEND_TAG_MAP
                   => /\ t.targetFriendIds = <<JsBigInt(FRIEND_TAG_MAP[token(r)])>>
                      /\ t.messageToSend = rest(r)
                      /\ t.sent # <<>>
                      /\ \A k \in 1..Len(t.sent) :
                           t.sent[k] = [to |-> JsBigInt(FRIEND_TAG_MAP[token(r)]),
                                        message |-> rest(r)]
              /\ token(r) = All
                   => /\ t.targetFriendIds = asJsValues(FRIEND_TELEGRAM_IDS)
                      /\ t.messageToSend = rest(r)

\* C11 witness: the owner's command with the tag john, a tab and a message
\* has been handled and the invocation returned.
C11_Witness ==
  /\ waMsg # <<>> /\ waTasks # <<>> /\ allDone(waTasks)
  /\ ownerCommand(theMessage) /\ theMessage.body = BodyJohnTabHi
  /\ token(remainder(theMessage)) \in DOMAIN FRIEND_TAG_MAP

\* C12 as claimed: an owner command with a non-empty remainder whose first
\* token is neither `all` nor a tag configured in FRIEND_TAGS (a remainder of
\* one word and a token that names a built-in object property included) is
\* sent to every friend, the payload being the whole remainder.
C12_DefaultsToAll ==
  waMsg # <<>> =>
    \A t \in Invocations :
      LET r == remainder(theMessage)
      IN (/\ ownerCommand(theMessage) /\ r # <<>>
          /\ token(r) # All /\ token(r) \notin DOMAIN FRIEND_TAG_MAP)
           => /\ t.targetTag = All
              /\ t.messageToSend = r
              /\ t.targetFriendIds = asJsValues(FRIEND_TELEGRAM_IDS)
              /\ t.sent # <<>>
              /\ \A k \in 1..Len(t.sent) :
                   t.sent[k] = [to |-> JsBigInt(FRIEND_TELEGRAM_IDS[k]), message |-> r]

\* C12 witness: the owner's command whose first word is `constructor`, which
\* is no configured tag, has been handled and the invocation returned.
C12_Witness ==
  /\ waMsg # <<>> /\ waTasks # <<>> /\ allDone(waTasks)
  /\ ownerCommand(theMessage) /\ theMessage.body = BodyConstructorHi
  /\ token(remainder(theMessage)) \notin DOMAIN FRIEND_TAG_MAP

\* The body starts with the configured prefix, letter case apart.
hasPrefix(msg) ==
  /\ Len(msg.body) >= Len(MESSAGE_PREFIX)
  /\ \A k \in 1..Len(MESSAGE_PREFIX) :
       LowerChar(msg.body[k]) = LowerChar(MESSAGE_PREFIX[k])

\* C13: an event that passes the owner gate and whose body does not start
\* with the prefix (letter case apart) causes no Telegram send and no reply:
\* its invocation returns at once having parsed, counted and logged nothing,
\* and the registry is as the configuration gave it.
C13_NotACommand ==
  waMsg # <<>> =>
    \A t \in Invocations :
      (fromOwner(theMessage) /\ ~hasPrefix(theMessage))
        => /\ t.pc = "done" /\ t.gate /\ ~t.command
           /\ t.sent = <<>> /\ t.replies = <<>>
           /\ t.targetFriendIds = <<>> /\ t.messageToSend = <<>>
           /\ t.successCount = 0 /\ t.errorCount = 0 /\ t.logged = 0
           /\ FRIEND_TELEGRAM_IDS = loadConfiguration(env).ids
           /\ FRIEND_TAG_MAP = loadConfiguration(env).tagMap
           /\ FRIEND_ID_TO_TAG = loadConfiguration(env).idToTag

\* C13 witness: the owner's message with a space before the prefix has been
\* handled by both listeners.
C13_Witness ==
  /\ waMsg # <<>> /\ Len(waTasks) = 2
  /\ fromOwner(theMessage) /\ ~hasPrefix(theMessage)
  /\ theMessage.body = BodyLeadingSpace

\* The spellings of the prefix that differ from it in letter case only.
PrefixCasings ==
  {p \in {<<"t", "g", ":">>, <<"T", "G", ":">>, <<"T", "g", ":">>, <<"t", "G", ":">>} :
     Len(p) = Len(MESSAGE_PREFIX)
       /\ \A k \in 1..Len(p) : LowerChar(p[k]) = LowerChar(MESSAGE_PREFIX[k])}

\* The message with its prefix part spelled p.
withPrefix(msg, p) ==
  [msg EXCEPT !.body = p \o SubSeq(msg.body, Len(p) + 1, Len(msg.body))]

\* C14: an owner command and the same body with its prefix part in any other
\* letter case yield the same target selector, the same destinations, the same
\* payload and the same first reply; the payload is a part of the body in its
\* original letter case, and so is the message of every send.
C14_PrefixCaseInsensitive ==
  waMsg # <<>> =>
    \A t \in Invocations :
      ownerCommand(theMessage)
        => /\ \A p \in PrefixCasings :
                LET u == handleWhatsAppMessage(withPrefix(theMessage, p), t.event)
                IN /\ u.command = t.command
                   /\ u.targetTag = t.targetTag
                   /\ u.targetFriendIds = t.targetFriendIds
                   /\ u.messageToSend = t.messageToSend
                   /\ u.replies # <<>> => (t.replies # <<>> /\ t.replies[1] = u.replies[1])
           /\ LET r == remainder(theMessage)
              IN /\ t.messageToSend # <<>>
                      => \E k \in 1..Len(r) : SubSeq(r, k, Len(r)) = t.messageToSend
                 /\ \A k \in 1..Len(t.sent) : t.sent[k].message = t.messageToSend

\* C14 witness: the owner's command "TG:John Hi" under the prefix "tg:" has
\* been sent with the payload "Hi", and the prefix has other spellings.
C14_Witness ==
  /\ waMsg # <<>> /\ waTasks # <<>> /\ allDone(waTasks)
  /\ ownerCommand(theMessage) /\ theMessage.body = BodyJohnHi
  /\ MESSAGE_PREFIX = <<"t", "g", ":">> /\ Cardinality(PrefixCasings) = 4
  /\ \E t \in Invocations : t.sent # <<>> /\ t.sent[1].message = <<"H", "i">>

\* The identifier is an element of the friend list.
inAllowList(n) == \E k \in 1..Len(FRIEND_TELEGRAM_IDS) : FRIEND_TELEGRAM_IDS[k] = n

\* C15 as claimed: once a configuration has passed validation every value of
\* FRIEND_TAG_MAP is an element of FRIEND_TELEGRAM_IDS, and every send of a
\* command addressed to a configured tag goes to an element of
\* FRIEND_TELEGRAM_IDS.
C15_TagIdsInAllowList ==
  phase \notin {"loading", "exited"}
    => /\ \A tag \in DOMAIN FRIEND_TAG_MAP : inAllowList(FRIEND_TAG_MAP[tag])
       /\ \A t \in Invocations :
            t.targetTag \in DOMAIN FRIEND_TAG_MAP
              => \A k \in 1..Len(t.sent) :
                   t.sent[k].to.k = "bigint" /\ inAllowList(t.sent[k].to.v)

\* C15 witness: a command addressed to a tag has been sent to the tag's
\* identifier, which is not in the friend list, and its send resolved.
C15_Witness ==
  \E t \in Invocations :
    /\ t.pc = "done" /\ t.targetTag \in DOMAIN FRIEND_TAG_MAP
    /\ t.resolved = 1
    /\ ~inAllowList(FRIEND_TAG_MAP[t.targetTag])

\* ------------------------------------------------------------------------
\* Properties of the Telegram -> WhatsApp direction
\* ------------------------------------------------------------------------
Forwardings == {tgTasks[i] : i \in DOMAIN tgTasks}

\* The sender's identifier is an element of FRIEND_TELEGRAM_IDS, as integers.
allowListed(ev) ==
  /\ ev.senderId.kind # "undefined"
  /\ \E k \in 1..Len(FRIEND_TELEGRAM_IDS) : FRIEND_TELEGRAM_IDS[k] = ev.senderId.v

textMessage(ev) == ev.hasMessage /\ ev.text # <<>>

headerThenText(f, ev) ==
  LET n == Len(f) - Len(ev.text)
  IN /\ n >= 3 + Len(ev.sender.firstName)
     /\ f[1] = BridgeMarker
     /\ SubSeq(f, 2, 1 + Len(ev.sender.firstName)) = ev.sender.firstName
     /\ f[n - 1] = ":"
     /\ f[n] = "\n"
     /\ SubSeq(f, n + 1, Len(f)) = ev.text

withSpaceSeparator(msg) ==
  LET after == SubSeq(msg.body, Len(MESSAGE_PREFIX) + 1, Len(msg.body))
      lead == Len(after) - Len(trimStart(after))
      at == Len(MESSAGE_PREFIX) + lead + firstWhiteSpace(remainder(msg))
  IN [msg EXCEPT !.body = [msg.body EXCEPT ![at] = " "]]

\* C19 as claimed: a command in which a configured tag is followed by a tab
\* or a newline and then text is routed as the same command with a space for
\* separator: to the tag's destination only, the payload being the text.
C19_AnyWhiteSpaceDelimits ==
  waMsg # <<>> =>
    \A t \in Invocations :
      LET r == remainder(theMessage)
          w == firstWhiteSpace(r)
      IN (/\ ownerCommand(theMessage) /\ w > 0 /\ r[w] \in {"\t", "\n"}
          /\ token(r) \in DOMAIN FRIEND_TAG_MAP /\ rest(r) # <<>>)
           => LET u == handleWhatsAppMessage(withSpaceSeparator(theMessage), t.event)
              IN /\ t.targetTag = u.targetTag /\ t.targetTag = token(r)
                 /\ t.targetFriendIds = u.targetFriendIds
                 /\ t.messageToSend = u.messageToSend /\ t.messageToSend = rest(r)

\* C19 witness: the owner's command with the tag john, a newline and a
\* message has been handled and the invocation returned after sending.
C19_Witness ==
  /\ waMsg # <<>> /\ waTasks # <<>> /\ allDone(waTasks)
  /\ ownerCommand(theMessage) /\ theMessage.body = BodyJohnNewlineHi
  /\ token(remainder(theMessage)) \in DOMAIN FRIEND_TAG_MAP
  /\ \E t \in Invocations : t.sent # <<>>

\* C22: a Telegram event without a message object, or whose message has no
\* text, causes no whatsappClient.sendMessage call and no error report; its
\* handler returns at once without looking at the sender, also when the sender
\* is in the friend list.
C22_TextlessIgnored ==
  \A f \in Forwardings :
    ~textMessage(f.event)
      => /\ f.pc = "done" /\ ~f.accepted
         /\ f.forwarded = <<>> /\ f.logged = 0 /\ f.rejected = 0
         /\ f.senderId = 0

\* C22 witness: an event whose message has no text, from a friend, has been
\* handled while the handler is installed.
C22_Witness ==
  /\ telegramListening
  /\ \E f \in Forwardings :
       f.event.hasMessage /\ f.event.text = <<>> /\ allowListed(f.event) /\ f.pc = "done"

\* ------------------------------------------------------------------------
\* Properties of the start-up
\* ------------------------------------------------------------------------
colons(p) == Cardinality({i \in 1..Len(p) : p[i] = ":"})

\* The comma-separated entries of an environment value.
entriesOf(v) == IF Truthy(v) THEN split(v.s, ",") ELSE <<>>

numeric(x) == x # <<>> /\ \A i \in 1..Len(x) : x[i] \in Digits

missingKey(e) ==
  \/ ~Truthy(e.TELEGRAM_API_ID) \/ ~Truthy(e.TELEGRAM_API_HASH)
  \/ ~Truthy(e.TELEGRAM_PHONE) \/ ~Truthy(e.YOUR_WHATSAPP_NUMBER)
  \/ (~Truthy(e.FRIEND_TELEGRAM_IDS) /\ ~Truthy(e.FRIEND_TELEGRAM_ID))

listEntries(e) ==
  LET v == IF Truthy(e.FRIEND_TELEGRAM_IDS) THEN e.FRIEND_TELEGRAM_IDS
           ELSE e.FRIEND_TELEGRAM_ID
  IN SelectSeq(mapTrim(entriesOf(v)), LAMBDA x : x # <<>> /\ x # PlaceholderId)

nonNumericId(e) ==
  \/ \E i \in 1..Len(listEntries(e)) : ~numeric(listEntries(e)[i])
  \/ \E i \in 1..Len(entriesOf(e.FRIEND_TAGS)) :
       LET p == entriesOf(e.FRIEND_TAGS)[i]
       IN colons(p) = 1 /\ ~numeric(trim(split(p, ":")[2]))

malformedTag(e) ==
  \E i \in 1..Len(entriesOf(e.FRIEND_TAGS)) : colons(entriesOf(e.FRIEND_TAGS)[i]) # 1

invalidConfiguration(e) ==
  missingKey(e) \/ nonNumericId(e) \/ listEntries(e) = <<>> \/ malformedTag(e)

\* The error messages the validation prints before process.exit(1).
DescriptiveMessages ==
  {"Invalid format in FRIEND_TELEGRAM_IDS", "Invalid ID in FRIEND_TELEGRAM_IDS",
   "TELEGRAM_API_ID is missing or invalid", "TELEGRAM_API_HASH is missing",
   "TELEGRAM_PHONE is missing", "No valid friend Telegram IDs found",
   "YOUR_WHATSAPP_NUMBER is missing or invalid"}

\* C17 as claimed: the start-up with a configuration in which a required key
\* is missing (the friend list included), an identifier of the friend list or
\* of FRIEND_TAGS is not numeric, the friend list is empty or a FRIEND_TAGS
\* entry has no ':' or more than one ends with a descriptive error message and
\* a non-zero exit code, and never gets as far as connecting a client.
C17_FailFast ==
  (phase # "loading" /\ invalidConfiguration(env))
    => /\ phase = "exited" /\ exitCode > 0
       /\ startupMessage \in DescriptiveMessages

\* C17 witness: the bridge is running under a configuration whose FRIEND_TAGS
\* has an entry without ':', and that entry's tag is not in FRIEND_TAG_MAP.
C17_Witness ==
  /\ phase = "running" /\ env = EnvTagNoColon /\ malformedTag(env)
  /\ <<"j", "o", "h", "n">> \notin DOMAIN FRIEND_TAG_MAP

\* C18: within one dispatch at most one send is outstanding, and one is
\* outstanding exactly while the invocation awaits it, so a send is started
\* only when all earlier ones have settled; a dispatch to `all` sends in the
\* order in which the identifiers are written in the configuration.
C18_SequentialInConfiguredOrder ==
  \A t \in Invocations :
    /\ Len(t.sent) - (t.resolved + t.rejected) = (IF t.pc = "awaitSend" THEN 1 ELSE 0)
    /\ (t.targetTag = All /\ t.targetFriendIds # <<>>)
         => /\ Len(t.sent) <= Len(listEntries(env))
            /\ \A k \in 1..Len(t.sent) :
                 t.sent[k].to = JsBigInt(BigInt(listEntries(env)[k]))

\* C18 witness: under the friend list "2,000000000,1" a dispatch to `all` has
\* sent to 2 and then to 1 and returned.
C18_Witness ==
  \E t \in Invocations :
    /\ t.pc = "done" /\ t.targetTag = All /\ Len(t.sent) = 2
    /\ env = EnvTagOutside
    /\ t.sent[1].to = JsBigInt(2) /\ t.sent[2].to = JsBigInt(1)

\* ------------------------------------------------------------------------
\* Properties of both directions
\* ------------------------------------------------------------------------
\* C16: no rejection of telegramClient.sendMessage, whatsappClient.sendMessage
\* or msg.reply ends the process or leaves its handler: the process exits only
\* on the start-up path; every invocation is suspended at an await or has
\* returned; a rejected Telegram send is counted in errorCount and the loop
\* goes on to the last destination; a rejected reply is logged; a rejected
\* WhatsApp send is logged and its handler returns.
C16_RejectionsContained ==
  /\ exitCode # -1
       => (startupMessage = "Failed to start bridge" \/ loadConfiguration(env).outcome # "ok")
  /\ \A t \in Invocations :
       /\ t.pc \in {"awaitSend", "awaitReply", "done"}
       /\ t.errorCount = t.rejected
       /\ t.logged = t.replyRejected
       /\ (t.pc = "done" /\ t.targetFriendIds # <<>>)
            => t.resolved + t.rejected = Len(t.targetFriendIds)
  /\ \A f \in Forwardings :
       /\ f.pc \in {"awaitSender", "awaitSend", "done"}
       /\ f.rejected > 0 => (f.pc = "done" /\ f.logged = f.rejected)

\* C16 witness: while the bridge listens, a command has returned after a
\* rejected Telegram send and a rejected reply, and a forwarding has returned
\* after a rejected WhatsApp send.
C16_Witness ==
  /\ whatsAppListening
  /\ \E t \in Invocations : t.pc = "done" /\ t.rejected > 0 /\ t.replyRejected > 0
  /\ \E f \in Forwardings : f.pc = "done" /\ f.rejected > 0

\* C20: with invocations of both handlers interleaved at their awaits, the
\* counts of every invocation are the tallies of its own settled sends and its
\* summary replies state those tallies; every forwarding has logged its own
\* rejected send only; and FRIEND_TELEGRAM_IDS, FRIEND_TAG_MAP and
\* FRIEND_ID_TO_TAG are what the start-up made of the configuration.
C20_InvocationsIndependent ==
  /\ phase # "loading"
       => /\ FRIEND_TELEGRAM_IDS = loadConfiguration(env).ids
          /\ FRIEND_TAG_MAP = loadConfiguration(env).tagMap
          /\ FRIEND_ID_TO_TAG = loadConfiguration(env).idToTag
  /\ \A i \in DOMAIN waTasks :
       LET t == waTasks[i]
       IN /\ t.successCount = t.resolved
          /\ t.errorCount = t.rejected
          /\ t.successCount + t.errorCount <= Len(t.targetFriendIds)
          /\ \A k \in 1..Len(t.replies) :
               /\ isSentReply(t.replies[k])
                    => t.replies[k] = SentReply(IF t.targetTag = All
                                                THEN toString(t.resolved) \o <<" friend(s)">>
                                                ELSE t.targetTag)
               /\ isFailedReply(t.replies[k]) => t.replies[k] = FailedReply(t.rejected)
  /\ \A i \in DOMAIN tgTasks :
       /\ Len(tgTasks[i].forwarded) <= 1
       /\ tgTasks[i].logged = tgTasks[i].rejected

\* C20 witness: two commands overlapped (the second arrived while the first
\* was suspended); every send of one rejected and every send of the other
\* resolved, and both have returned.
C20_Witness ==
  /\ Len(waTasks) = 2 /\ allDone(waTasks)
  /\ waTasks[1].targetTag # waTasks[2].targetTag
  /\ waTasks[1].resolved = 0 /\ waTasks[1].rejected > 0
  /\ waTasks[2].resolved > 0 /\ waTasks[2].rejected = 0

\* C21: an invocation that awaits a send has made no send beyond it and no
\* reply, and it stays exactly as it is, other invocations arriving, going on
\* and returning meanwhile, until that very send settles: while the send does
\* not settle the remaining destinations are not attempted and nothing is
\* replied.
C21_UnsettledSendSuspendsItsInvocation ==
  /\ [](\A i \in DOMAIN waTasks :
          waTasks[i].pc = "awaitSend"
            => /\ waTasks[i].replies = <<>>
               /\ Len(waTasks[i].sent) = waTasks[i].next
               /\ waTasks[i].resolved + waTasks[i].rejected = waTasks[i].next - 1)
  /\ [][\A i \in DOMAIN waTasks :
          waTasks[i].pc = "awaitSend"
            => \/ \E j \in DOMAIN waTasks' : waTasks'[j] = waTasks[i]
               \/ /\ Len(waTasks') = Len(waTasks)
                  /\ waTasks'[i].resolved + waTasks'[i].rejected
                       = waTasks[i].resolved + waTasks[i].rejected + 1]_vars

\* C21 witness: a dispatch to two friends still awaits its first send; a
\* command that arrived after it has been sent and confirmed and has returned.
C21_Witness ==
  \E i, j \in DOMAIN waTasks :
    /\ i < j
    /\ waTasks[i].pc = "awaitSend" /\ waTasks[i].next = 1
    /\ Len(waTasks[i].targetFriendIds) = 2
    /\ waTasks[j].pc = "done" /\ waTasks[j].resolved > 0 /\ waTasks[j].replies # <<>>

\* ------------------------------------------------------------------------
\* Properties of the shutdown
\* ------------------------------------------------------------------------
\* The steps of a complete run of the SIGINT handler.
completeShutdown(h) ==
  /\ Len(h.steps) = 5
  /\ h.steps[1] = "disconnect" /\ h.steps[3] = "destroy" /\ h.steps[5] = "exit"

\* The steps of a run so far are in the handler's order, and a run that has
\* finished has ended the process with exit code 0.
orderedShutdown(h) ==
  /\ h.steps[1] = "disconnect"
  /\ Len(h.steps) > 1
       => /\ Len(h.steps) >= 3
          /\ h.steps[2] \in {"disconnected", "disconnectError"}
          /\ h.steps[3] = "destroy"
  /\ h.pc = "done" => (completeShutdown(h) /\ phase = "exited" /\ exitCode = 0)

\* C23 as claimed: every run of the SIGINT handler attempts the Telegram
\* disconnect first and then, whatever its outcome, the WhatsApp destroy; and
\* once SIGINT has been received the process ends only with exit code 0, after
\* both attempts of one run.
C23_GracefulShutdown ==
  /\ \A i \in DOMAIN shutdown : orderedShutdown(shutdown[i])
  /\ (shutdown # <<>> /\ phase = "exited")
       => /\ exitCode = 0
          /\ \E i \in DOMAIN shutdown : completeShutdown(shutdown[i])

\* C23 as amended: every run of the SIGINT handler attempts the Telegram
\* disconnect first and then, whatever its outcome, the WhatsApp destroy, and
\* ends the process with exit code 0 whatever the outcome of the destroy; after
\* a SIGINT the process ends otherwise only when a start-up call that was
\* still pending fails, with exit code 1; once WhatsApp has been initialised
\* the process ends with exit code 0 after both attempts of one run.
C23_ShutdownUnlessStartupFails ==
  /\ \A i \in DOMAIN shutdown : orderedShutdown(shutdown[i])
  /\ (shutdown # <<>> /\ phase = "exited")
       => \/ /\ exitCode = 0
             /\ \E i \in DOMAIN shutdown : completeShutdown(shutdown[i])
          \/ /\ exitCode = 1 /\ startupMessage = "Failed to start bridge"
             /\ clients.whatsapp \notin {"ready", "destroyed"}

\* C23 witness: a run of the SIGINT handler in which both the disconnect and
\* the destroy failed has ended the process with exit code 0.
C23_Witness ==
  /\ phase = "exited" /\ exitCode = 0
  /\ \E i \in DOMAIN shutdown :
       shutdown[i].steps = <<"disconnect", "disconnectError", "destroy", "destroyError", "exit">>

\* ------------------------------------------------------------------------
\* Properties of the metadata inspector
\* ------------------------------------------------------------------------
\* The lines the analysis of message m logs before its terminal log is joined.
linesOfAnalysis(m) == <<logLine(m, "header"), logLine(m, "analysis"), logLine(m, "saved")>>

\* C24 as claimed: the terminal log file written for a message holds exactly
\* the lines logged by the analysis of that message, and no line logged for
\* another message, also when the handlers of two messages overlap.
C24_TerminalLogOfOneMessage ==
  \A k \in DOMAIN terminalFiles :
     /\ \A n \in DOMAIN terminalFiles[k].lines :
          terminalFiles[k].lines[n].of = terminalFiles[k].of
     /\ terminalFiles[k].lines = linesOfAnalysis(terminalFiles[k].of)

\* C24: a second message_create arrived while the first handler was suspended
\* at getChat(), and the first message's terminal log file was written.
C24_Witness ==
  /\ Len(inspections) = 2
  /\ \E k \in DOMAIN terminalFiles :
       /\ terminalFiles[k].of = 1
       /\ \E n \in DOMAIN terminalFiles[k].lines : terminalFiles[k].lines[n].of = 2
       /\ logLine(1, "header") \notin {terminalFiles[k].lines[n] : n \in DOMAIN terminalFiles[k].lines}

\* ------------------------------------------------------------------------
\* Properties of the bridge's own messages coming back
\* ------------------------------------------------------------------------
\* The invocation did nothing: no command, no send, no reply.
ignored(t) ==
  /\ ~t.command /\ t.pc = "done" /\ t.sent = <<>> /\ t.replies = <<>>

\* C25: with the default prefix, no reply of the bridge and no forwarded
\* Telegram message that comes back to handleWhatsAppMessage with fromMe true
\* is treated as a command: the invocation sends nothing and replies nothing.
\* So what one event triggers is bounded: an invocation sends at most once per
\* configured friend and replies at most three times, a forwarding forwards at most
\* once and never sends on Telegram, also when the account's own Telegram
\* identifier is in the allow-list and its outgoing messages are forwarded.
C25_NoEchoIsACommand ==
  /\ [](\A i \in DOMAIN waTasks :
          /\ Len(waTasks[i].sent) <= Len(FRIEND_TELEGRAM_IDS)
          /\ Len(waTasks[i].replies) <= 3)
  /\ [](\A i \in DOMAIN tgTasks : Len(tgTasks[i].forwarded) <= 1)
  /\ [][(ReplyEcho \/ ForwardEcho) => \A i \in DOMAIN waTasks' : ignored(waTasks'[i])]_vars
  /\ [][SendEcho => waTasks' = waTasks]_vars

\* C25 witness: a command was sent to a friend, the sent message came back as
\* an outgoing Telegram message of the account, whose identifier is in the
\* allow-list, was forwarded to WhatsApp, and the forwarded message has come
\* back to handleWhatsAppMessage, which ignored it.
C25_Witness ==
  /\ waMsg # <<>>
  /\ waMsg[1].fromMe
  /\ \E i \in DOMAIN tgTasks :
       /\ tgTasks[i].event.sender = me
       /\ tgTasks[i].senderId = 1
       /\ tgTasks[i].forwarded # <<>>
       /\ waMsg[1].body = tgTasks[i].forwarded[1].text
       /\ waMsg[1].body[1] = BridgeMarker
  /\ waTasks # <<>>
  /\ \A i \in DOMAIN waTasks : ignored(waTasks[i])

\* ------------------------------------------------------------------------
\* Properties of the start-up order
\* ------------------------------------------------------------------------
\* C26: whatsappClient.initialize() is called only after the Telegram client
\* has connected and the Telegram handler has been added, so every invocation
\* of handleWhatsAppMessage, and every send to Telegram, happens with Telegram
\* connected; a start-up that ends before the handler was added (connect() or
\* the set-up failed) exits with code 1 and has never initialised WhatsApp nor
\* handled a WhatsApp message.
C26_TelegramBeforeWhatsApp ==
  /\ clients.whatsapp # "idle" => (clients.telegram = "connected" /\ clients.forwarding)
  /\ waTasks # <<>> => (clients.telegram = "connected" /\ clients.forwarding)
  /\ (phase = "exited" /\ ~clients.forwarding)
       => (exitCode = 1 /\ clients.whatsapp = "idle" /\ waTasks = <<>> /\ waMsg = <<>>)
  /\ clients.telegram = "failed" => (phase = "exited" /\ exitCode = 1)

\* C26 witness: a command has been sent to Telegram; Telegram is connected and
\* its handler was added before.
C26_Witness ==
  /\ clients.telegram = "connected" /\ clients.forwarding
  /\ clients.whatsapp = "ready"
  /\ \E i \in DOMAIN waTasks : waTasks[i].resolved > 0

\* ------------------------------------------------------------------------
\* Properties of a failed forward
\* ------------------------------------------------------------------------
\* C27: a forward whose whatsappClient.sendMessage rejected was attempted
\* once, and its invocation has returned: it is never attempted again and
\* nothing of it is kept for later (the invocation stays as it is until it is
\* forgotten).  Every other forwarding is what it would be without the
\* failure: its one attempt carries its own message, and the settling of one
\* forward changes no other invocation.
C27_FailedForwardNotRetried ==
  /\ [](\A i \in DOMAIN tgTasks :
          /\ Len(tgTasks[i].forwarded) <= 1
          /\ tgTasks[i].rejected > 0
               => /\ tgTasks[i].rejected = 1 /\ tgTasks[i].pc = "done"
                  /\ Len(tgTasks[i].forwarded) = 1
          /\ tgTasks[i].forwarded # <<>>
               => tgTasks[i].forwarded[1] =
                    [to |-> whatsappNumber,
                     text |-> forwardedMessage(tgTasks[i], tgTasks[i].event.sender)])
  /\ [][\A i \in DOMAIN tgTasks :
          tgTasks[i].rejected > 0
            => \/ \E j \in DOMAIN tgTasks' : j <= i /\ tgTasks'[j] = tgTasks[i]
               \/ Len(tgTasks') <= Len(SelectSeq(tgTasks, notDone)) + 1]_vars
  /\ [][\A i \in DOMAIN tgTasks, ok \in BOOLEAN :
          WhatsAppSendSettles(i, ok)
            => \A j \in DOMAIN tgTasks : j # i => tgTasks'[j] = tgTasks[j]]_vars

\* C27 witness: the forward of one message failed; the message that arrived
\* after it has been forwarded.
C27_Witness ==
  \E i, j \in DOMAIN tgTasks :
    /\ i < j
    /\ tgTasks[i].rejected = 1 /\ tgTasks[i].pc = "done"
    /\ tgTasks[j].pc = "done" /\ tgTasks[j].rejected = 0 /\ Len(tgTasks[j].forwarded) = 1

\* ------------------------------------------------------------------------
\* Properties of the two tag maps
\* ------------------------------------------------------------------------
\* C28 as claimed: once the configuration has been parsed, for every
\* identifier i with FRIEND_ID_TO_TAG[i] = t, FRIEND_TAG_MAP[lowercase(t)] is
\* i: the tag shown for a friend routes a command to that friend.
C28_MapsMutuallyInverse ==
  phase # "loading"
    => \A i \in DOMAIN FRIEND_ID_TO_TAG :
         /\ toLowerCase(FRIEND_ID_TO_TAG[i]) \in DOMAIN FRIEND_TAG_MAP
         /\ toString(FRIEND_TAG_MAP[toLowerCase(FRIEND_ID_TO_TAG[i])]) = i

\* C28: friend 1 is shown with the tag john, and a command tagged john has
\* been sent to friend 2 alone.
C28_Witness ==
  /\ <<"1">> \in DOMAIN FRIEND_ID_TO_TAG
  /\ FRIEND_ID_TO_TAG[<<"1">>] = <<"j", "o", "h", "n">>
  /\ \E i \in DOMAIN waTasks :
       /\ toLowerCase(waTasks[i].targetTag) = <<"j", "o", "h", "n">>
       /\ Len(waTasks[i].sent) = 1
       /\ waTasks[i].sent[1].to = JsBigInt(2)
       /\ waTasks[i].pc = "done"

\* ------------------------------------------------------------------------
\* Properties of the parser's emptiness checks
\* ------------------------------------------------------------------------
\* The first word of afterPrefix, up to its first space, is a selector.
selectorThenSpace(t) ==
  LET firstSpace == indexOf(t.afterPrefix, " ")
      potentialTag == toLowerCase(substring(t.afterPrefix, 0, firstSpace))
  IN /\ t.command
     /\ firstSpace > 0
     /\ potentialTag = All \/ truthy(tagLookup(potentialTag))

\* C29: when the parser recognises a selector followed by a space the message
\* to send is not empty, so the bare "Message is empty." reply is never made:
\* a command with nothing to send is answered by the usage help or by "No
\* message provided after tag.".
C29_EmptyReplyUnreachable ==
  \A t \in Invocations :
    /\ selectorThenSpace(t) => t.messageToSend # <<>>
    /\ \A k \in DOMAIN t.replies : t.replies[k] # EmptyReply
    /\ t.awaiting # "empty"
    /\ (t.command /\ t.messageToSend = <<>>)
         => /\ t.replies # <<>>
            /\ t.replies[1] \in {UsageReply, NoMessageReply}
            /\ t.sent = <<>>

\* C29 witness: the selector all, two spaces and a text; the text is what is
\* sent.
C29_Witness ==
  /\ waMsg # <<>>
  /\ waMsg[1].body = BodyAllGap
  /\ \E t \in Invocations :
       /\ selectorThenSpace(t)
       /\ t.messageToSend = <<"h", "i">>
       /\ t.sent # <<>>

====
